---- MODULE Spec2Model ----
(***************************************************************************)
(* Model of the NBA dashboard's prediction and odds-normalisation code:    *)
(*   client/src/lib/betting-api.ts      (fetchBettingOdds and its helpers) *)
(*   client/src/components/GameModal.tsx (the prediction timer callback)   *)
(*                                                                         *)
(* Numbers.  Every JavaScript number n of the program is held as the       *)
(* integer 100 * n (hundredths): 2.5 is 250, 123.3 is 12330, -110 is       *)
(* -11000.  The inputs of the model are chosen so that every binary64      *)
(* result of the code equals the exact decimal result (ratings are         *)
(* integers, points have one decimal, quoted totals are multiples of 0.5). *)
(* Math.round rounds halves towards +infinity, which for integers is       *)
(* floor((2a + b) / 2b).  \div is floor division.                          *)
(*                                                                         *)
(* Values that need not be numbers (a table lookup, a result computed from *)
(* one) are records with a "type" field: Num(v), NaN, FunctionObject,      *)
(* Undefined, StringValue.                                                 *)
(***************************************************************************)
EXTENDS Integers, Sequences, FiniteSets, TLC

VARIABLES
    homeTeam,         \* the requested home team name (game.home_team)
    awayTeam,         \* the requested away team name (game.away_team)
    loading,          \* GameModal's loading state
    predictionModel,  \* GameModal's predictionModel state
    uncaught,         \* an exception escaped GameModal's timer callback
    data,             \* the JSON payload handed to parseOddsApiResponse
    parsed,           \* what parseOddsApiResponse did with data
    oddsData,         \* what fetchBettingOdds resolved with
    again,            \* what a second parseOddsApiResponse(data) did
    oddsArgument,     \* the argument of a call of formatAmericanOdds
    formatted,        \* what that call returned
    request,          \* the query parameters of a GET /api/odds request
    feed,             \* what the odds provider answers
    response,         \* the response of GET /api/odds
    cardOdds,         \* the odds state of GameCard
    isLoadingOdds,    \* the isLoadingOdds state of GameCard
    selectedDate,     \* the selectedDate state of Home
    games,            \* the games state of Home
    isLoading,        \* the isLoading state of Home, and of BettingSites in its specification
    error,            \* the error state of Home, and of BettingSites in its specification
    gamesRequests,    \* the dates of the /api/games requests in flight, oldest first
    game,             \* the game prop of a mounted GameModal
    timers,           \* the games captured by the pending setTimeout callbacks, oldest first
    bettingSites      \* the bettingSites state of BettingSites

vars ==
    <<homeTeam, awayTeam, loading, predictionModel, uncaught, data, parsed, oddsData,
      again, oddsArgument, formatted,
      request, feed, response,
      cardOdds, isLoadingOdds,
      selectedDate, games, isLoading, error, gamesRequests,
      game, timers,
      bettingSites>>

\* the state of GET /api/odds, idle outside the route's specification
routeVars == <<request, feed, response>>

RouteIdle ==
    /\ request = [type |-> "none"]
    /\ feed = [type |-> "none"]
    /\ response = [type |-> "none"]

\* the state of a GameCard, idle outside the predictor's specification
cardVars == <<cardOdds, isLoadingOdds>>

CardIdle ==
    /\ cardOdds = [type |-> "null"]
    /\ isLoadingOdds = FALSE

\* the state of the Home page, idle outside the page's specification
homeVars == <<selectedDate, games, isLoading, error, gamesRequests>>

HomeIdle ==
    /\ selectedDate = [type |-> "undefined"]
    /\ games = <<>>
    /\ isLoading = FALSE
    /\ error = [type |-> "null"]
    /\ gamesRequests = <<>>

\* the game prop and the timers of a GameModal whose game changes, idle outside that specification
modalVars == <<game, timers>>

ModalIdle ==
    /\ game = [type |-> "null"]
    /\ timers = <<>>

\* the odds list of a BettingSites component, empty outside the component's specification
sitesVars == <<bettingSites>>

SitesIdle ==
    /\ bettingSites = <<>>

----------------------------------------------------------------------------
(* JavaScript values and arithmetic *)

Num(v) == [type |-> "number", val |-> v]

NaN == [type |-> "NaN"]

Undefined == [type |-> "undefined"]

FunctionObject == [type |-> "function"]

StringValue == [type |-> "string"]

IsNum(x) == x.type = "number"

\* ToBoolean, as the || operator applies it
Truthy(x) ==
    CASE x.type = "number" -> x.val # 0
      [] x.type = "NaN" -> FALSE
      [] x.type = "undefined" -> FALSE
      [] OTHER -> TRUE

\* a || d
OrDefault(x, d) == IF Truthy(x) THEN x ELSE Num(d)

\* a - b : ToNumber of a function is NaN
Sub(a, b) == IF IsNum(a) /\ IsNum(b) THEN Num(a.val - b.val) ELSE NaN

\* a + b : with a function operand + concatenates strings
Add(a, b) ==
    IF IsNum(a) /\ IsNum(b) THEN Num(a.val + b.val)
    ELSE IF a.type \in {"function", "string"} \/ b.type \in {"function", "string"}
         THEN StringValue
         ELSE NaN

\* a / 2 : ToNumber of the concatenated string is NaN
Half(a) == IF IsNum(a) THEN Num(a.val \div 2) ELSE NaN

\* Math.round(a / b) for integers a and b > 0
RoundDiv(a, b) == (2 * a + b) \div (2 * b)

\* Math.round(x * 10) / 10
Round1(x) == IF IsNum(x) THEN Num(RoundDiv(x.val, 10) * 10) ELSE NaN

\* Math.round(x)
MathRound(x) == IF IsNum(x) THEN Num(RoundDiv(x.val, 100) * 100) ELSE NaN

\* Math.min(x, c) and Math.max(x, c) for a number c: NaN if x is NaN
MathMin(x, c) == IF IsNum(x) THEN Num(IF x.val < c THEN x.val ELSE c) ELSE NaN

MathMax(x, c) == IF IsNum(x) THEN Num(IF x.val > c THEN x.val ELSE c) ELSE NaN

\* a >= b in the place of a > b
GreaterOrEqual(a, b) == IsNum(a) /\ IsNum(b) /\ a.val >= b.val

\* a > b and a < b : any comparison with NaN (or a function) is false
Greater(a, b) == IsNum(a) /\ IsNum(b) /\ a.val > b.val

Less(a, b) == IsNum(a) /\ IsNum(b) /\ a.val < b.val

\* array.find(test), hits being the indices whose element passes the test:
\* <<>> for undefined, <<element>> for the first match
Find(array, hits) ==
    IF hits = {} THEN <<>>
    ELSE <<array[CHOOSE i \in hits : \A k \in hits : i <= k]>>

----------------------------------------------------------------------------
(* Number to string *)

Digits == <<"0", "1", "2", "3", "4", "5", "6", "7", "8", "9">>

RECURSIVE NatToString(_)
NatToString(n) ==
    IF n < 10 THEN Digits[n + 1]
    ELSE NatToString(n \div 10) \o Digits[(n % 10) + 1]

Abs(n) == IF n < 0 THEN -n ELSE n

\* Number.prototype.toString of the number v / 100: the shortest decimal
NumberToString(v) ==
    LET a == Abs(v)
        frac == a % 100
        fracStr == IF frac = 0 THEN ""
                   ELSE IF frac % 10 = 0 THEN "." \o Digits[(frac \div 10) + 1]
                   ELSE "." \o Digits[(frac \div 10) + 1] \o Digits[(frac % 10) + 1]
    IN  (IF v < 0 THEN "-" ELSE "") \o NatToString(a \div 100) \o fracStr

\* x.toString() / `${x}` of a value
ValueToString(x) == IF IsNum(x) THEN NumberToString(x.val) ELSE "NaN"

\* x.toFixed(1): one decimal, always printed
ToFixed1(x) ==
    IF ~IsNum(x) THEN "NaN"
    ELSE LET t == RoundDiv(Abs(x.val), 10)
         IN  (IF x.val < 0 /\ t > 0 THEN "-" ELSE "")
             \o NatToString(t \div 10) \o "." \o Digits[(t % 10) + 1]

----------------------------------------------------------------------------
(* The rating tables, betting-api.ts 283-385 *)

TEAM_RATINGS ==
    ("Boston Celtics" :> 9500) @@ ("Denver Nuggets" :> 8900) @@
    ("Oklahoma City Thunder" :> 8800) @@ ("Minnesota Timberwolves" :> 8700) @@
    ("Dallas Mavericks" :> 8600) @@ ("New York Knicks" :> 8500) @@
    ("Philadelphia 76ers" :> 8400) @@ ("Los Angeles Clippers" :> 8400) @@
    ("Cleveland Cavaliers" :> 8300) @@ ("Milwaukee Bucks" :> 8200) @@
    ("Phoenix Suns" :> 8100) @@ ("New Orleans Pelicans" :> 8000) @@
    ("Miami Heat" :> 8000) @@ ("Sacramento Kings" :> 7900) @@
    ("Los Angeles Lakers" :> 7800) @@ ("Golden State Warriors" :> 7800) @@
    ("Indiana Pacers" :> 7700) @@ ("Orlando Magic" :> 7700) @@
    ("Chicago Bulls" :> 7400) @@ ("Utah Jazz" :> 7200) @@
    ("Memphis Grizzlies" :> 7100) @@ ("Atlanta Hawks" :> 7000) @@
    ("Brooklyn Nets" :> 6900) @@ ("Toronto Raptors" :> 6800) @@
    ("Houston Rockets" :> 6700) @@ ("San Antonio Spurs" :> 6500) @@
    ("Charlotte Hornets" :> 6300) @@ ("Portland Trail Blazers" :> 6200) @@
    ("Washington Wizards" :> 6000) @@ ("Detroit Pistons" :> 5800)

TEAM_AVG_POINTS ==
    ("Indiana Pacers" :> 12330) @@ ("Milwaukee Bucks" :> 11950) @@
    ("Boston Celtics" :> 11930) @@ ("Sacramento Kings" :> 11810) @@
    ("Atlanta Hawks" :> 11750) @@ ("Dallas Mavericks" :> 11680) @@
    ("Golden State Warriors" :> 11680) @@ ("Minnesota Timberwolves" :> 11630) @@
    ("Denver Nuggets" :> 11490) @@ ("Oklahoma City Thunder" :> 11440) @@
    ("Los Angeles Lakers" :> 11380) @@ ("Houston Rockets" :> 11360) @@
    ("New Orleans Pelicans" :> 11350) @@ ("Phoenix Suns" :> 11310) @@
    ("Utah Jazz" :> 11310) @@ ("Chicago Bulls" :> 11300) @@
    ("Philadelphia 76ers" :> 11250) @@ ("Cleveland Cavaliers" :> 11220) @@
    ("Brooklyn Nets" :> 11220) @@ ("San Antonio Spurs" :> 11220) @@
    ("New York Knicks" :> 11200) @@ ("Orlando Magic" :> 11140) @@
    ("Toronto Raptors" :> 11130) @@ ("Washington Wizards" :> 11130) @@
    ("Los Angeles Clippers" :> 11110) @@ ("Miami Heat" :> 10930) @@
    ("Charlotte Hornets" :> 10790) @@ ("Detroit Pistons" :> 10670) @@
    ("Memphis Grizzlies" :> 10670) @@ ("Portland Trail Blazers" :> 10650)

TEAM_AVG_POINTS_ALLOWED ==
    ("Boston Celtics" :> 10790) @@ ("Minnesota Timberwolves" :> 10790) @@
    ("Orlando Magic" :> 10840) @@ ("Cleveland Cavaliers" :> 10930) @@
    ("Oklahoma City Thunder" :> 10940) @@ ("Miami Heat" :> 10960) @@
    ("New York Knicks" :> 10970) @@ ("Denver Nuggets" :> 11000) @@
    ("New Orleans Pelicans" :> 11060) @@ ("Los Angeles Clippers" :> 11130) @@
    ("Houston Rockets" :> 11130) @@ ("Philadelphia 76ers" :> 11220) @@
    ("Phoenix Suns" :> 11330) @@ ("Golden State Warriors" :> 11330) @@
    ("Milwaukee Bucks" :> 11350) @@ ("Brooklyn Nets" :> 11470) @@
    ("Sacramento Kings" :> 11500) @@ ("Dallas Mavericks" :> 11510) @@
    ("Toronto Raptors" :> 11510) @@ ("Memphis Grizzlies" :> 11530) @@
    ("Indiana Pacers" :> 11580) @@ ("Portland Trail Blazers" :> 11640) @@
    ("Chicago Bulls" :> 11660) @@ ("Los Angeles Lakers" :> 11700) @@
    ("Utah Jazz" :> 11730) @@ ("Atlanta Hawks" :> 11810) @@
    ("Detroit Pistons" :> 11850) @@ ("Charlotte Hornets" :> 11890) @@
    ("San Antonio Spurs" :> 11930) @@ ("Washington Wizards" :> 12090)

HOME_COURT_ADVANTAGE == 250

\* The tables are object literals: a name they do not hold is still looked
\* up on Object.prototype, where these names find a function.
ObjectPrototypeKeys ==
    {"constructor", "toString", "valueOf", "hasOwnProperty",
     "isPrototypeOf", "propertyIsEnumerable", "toLocaleString"}

\* table[name]
Lookup(table, name) ==
    IF name \in DOMAIN table THEN Num(table[name])
    ELSE IF name \in ObjectPrototypeKeys THEN FunctionObject
    ELSE Undefined

----------------------------------------------------------------------------
(* The prediction inside GameModal's timer callback, GameModal.tsx 75-141 *)

\* x.toFixed(2) of the quotient a / b
QuotientToFixed2(a, b) ==
    IF ~(IsNum(a) /\ IsNum(b)) THEN "NaN"
    ELSE LET h == RoundDiv(a.val * 100, b.val)
         IN  NatToString(h \div 100) \o "." \o Digits[((h % 100) \div 10) + 1]
             \o Digits[(h % 10) + 1]

\* a / b > c / d for positive numbers; false when an operand is no number
QuotientGreater(a, b, c, d) ==
    IsNum(a) /\ IsNum(b) /\ IsNum(c) /\ IsNum(d) /\ a.val * d.val > c.val * b.val

\* `${x}` of a rating: a function prints its source text
RatingToString(x) ==
    IF x.type = "function" THEN "function Object() { [native code] }"
    ELSE ValueToString(x)

\* WinProbability without the clamp: Math.round(50 - (spread * 3.3))
WinProbabilityUnclamped(spread) ==
    MathRound(IF IsNum(spread) THEN Num(5000 - (spread.val * 33) \div 10) ELSE NaN)

\* Math.max(Math.min(Math.round(50 - (spread * 3.3)), 95), 5)
WinProbability(spread) ==
    MathMax(MathMin(MathRound(
        IF IsNum(spread) THEN Num(5000 - (spread.val * 33) \div 10) ELSE NaN),
        9500), 500)

\* Spread rounded to a whole point: Math.round(rawSpread)
SpreadWholePoints(homeRating, awayRating) ==
    MathRound(Add(Sub(awayRating, homeRating), Num(HOME_COURT_ADVANTAGE)))

\* (awayRating - homeRating) + HOME_COURT_ADVANTAGE, rounded to one decimal
Spread(homeRating, awayRating) ==
    Round1(Add(Sub(awayRating, homeRating), Num(HOME_COURT_ADVANTAGE)))

\* Math.round((predictedHomeScore + predictedAwayScore) * 10) / 10
BaseTotal(homeAvgScore, awayAvgScore, homeAvgAllowed, awayAvgAllowed) ==
    LET predictedHomeScore == Half(Add(homeAvgScore, awayAvgAllowed))
        predictedAwayScore == Half(Add(awayAvgScore, homeAvgAllowed))
    IN  Round1(Add(predictedHomeScore, predictedAwayScore))

\* The five factors pushed at lines 93-125 (the injury factors of 128-134
\* read game.prediction, which no producer of games sets).
KeyFactors(home, away, homeRating, awayRating, homeAvgScore, awayAvgScore, homeAvgAllowed, awayAvgAllowed) ==
    LET hEff == QuotientToFixed2(homeAvgScore, homeAvgAllowed)
        aEff == QuotientToFixed2(awayAvgScore, awayAvgAllowed)
    IN  << IF QuotientGreater(homeAvgScore, homeAvgAllowed, awayAvgScore, awayAvgAllowed)
           THEN home \o " has better scoring efficiency (" \o hEff \o ") than "
                \o away \o " (" \o aEff \o ")"
           ELSE away \o " has better scoring efficiency (" \o aEff \o ") than "
                \o home \o " (" \o hEff \o ")",
           IF Less(homeAvgAllowed, awayAvgAllowed)
           THEN home \o " has stronger defense (" \o ToFixed1(homeAvgAllowed)
                \o " PPG allowed) than " \o away \o " (" \o ToFixed1(awayAvgAllowed)
                \o " PPG allowed)"
           ELSE away \o " has stronger defense (" \o ToFixed1(awayAvgAllowed)
                \o " PPG allowed) than " \o home \o " (" \o ToFixed1(homeAvgAllowed)
                \o " PPG allowed)",
           IF Greater(homeAvgScore, awayAvgScore)
           THEN home \o " has higher scoring offense (" \o ToFixed1(homeAvgScore)
                \o " PPG) than " \o away \o " (" \o ToFixed1(awayAvgScore) \o " PPG)"
           ELSE away \o " has higher scoring offense (" \o ToFixed1(awayAvgScore)
                \o " PPG) than " \o home \o " (" \o ToFixed1(homeAvgScore) \o " PPG)",
           IF Greater(homeRating, awayRating)
           THEN home \o " has higher team rating (" \o RatingToString(homeRating)
                \o ") than " \o away \o " (" \o RatingToString(awayRating) \o ")"
           ELSE away \o " has higher team rating (" \o RatingToString(awayRating)
                \o ") than " \o home \o " (" \o RatingToString(homeRating) \o ")",
           "Home court advantage adds " \o ToFixed1(Num(HOME_COURT_ADVANTAGE))
                \o " points to " \o home \o "'s rating" >>

\* The callback's computation: threw is TRUE when .toFixed is called on a
\* value that is no number (TypeError: x.toFixed is not a function), after
\* the three numbers were computed and before anything is installed.
ModalPrediction(home, away) ==
    LET homeRating == OrDefault(Lookup(TEAM_RATINGS, home), 7500)
        awayRating == OrDefault(Lookup(TEAM_RATINGS, away), 7500)
        spread == Spread(homeRating, awayRating)
        homeAvgScore == OrDefault(Lookup(TEAM_AVG_POINTS, home), 11200)
        awayAvgScore == OrDefault(Lookup(TEAM_AVG_POINTS, away), 11200)
        homeAvgAllowed == OrDefault(Lookup(TEAM_AVG_POINTS_ALLOWED, home), 11300)
        awayAvgAllowed == OrDefault(Lookup(TEAM_AVG_POINTS_ALLOWED, away), 11300)
        baseTotal == BaseTotal(homeAvgScore, awayAvgScore, homeAvgAllowed, awayAvgAllowed)
        homeWinProb == WinProbability(spread)
    IN  IF \E x \in {homeAvgScore, awayAvgScore, homeAvgAllowed, awayAvgAllowed} :
               ~(IsNum(x) \/ x.type = "NaN")
        THEN [threw |-> TRUE,
              predicted_total |-> baseTotal,
              predicted_spread |-> spread,
              home_win_probability |-> homeWinProb]
        ELSE [threw |-> FALSE,
              predicted_total |-> baseTotal,
              predicted_spread |-> spread,
              home_win_probability |-> homeWinProb,
              key_factors |-> KeyFactors(home, away, homeRating, awayRating,
                                         homeAvgScore, awayAvgScore,
                                         homeAvgAllowed, awayAvgAllowed)]

----------------------------------------------------------------------------
(* generateDataDrivenOdds, betting-api.ts 395-479 *)

\* x + c for a number c
Plus(x, c) == IF IsNum(x) THEN Num(x.val + c) ELSE NaN

\* Math.round(a / b) of two values: the moneyline quotients of lines 425-430
RoundQuotient(a, b) ==
    IF IsNum(a) /\ IsNum(b) /\ b.val > 0
    THEN Num(RoundDiv(a.val, b.val) * 100)
    ELSE NaN

\* c * x for an integer c
Times(c, x) == IF IsNum(x) THEN Num(c * x.val) ELSE NaN

\* x >= c : false for NaN
AtLeast(x, c) == IsNum(x) /\ x.val >= c

\* x > 0 : false for NaN
Positive(x) == IsNum(x) /\ x.val > 0

\* lines 419-434: the (home, away) moneylines of a win probability
Moneylines(homeWinProb) ==
    LET rest == Sub(Num(10000), homeWinProb)
        homeFavorite == AtLeast(homeWinProb, 5000)
        favoriteOdds == IF homeFavorite
                        THEN RoundQuotient(Times(-100, homeWinProb), rest)
                        ELSE RoundQuotient(Times(-100, rest), homeWinProb)
        underdogOdds == IF homeFavorite
                        THEN RoundQuotient(Times(100, rest), homeWinProb)
                        ELSE RoundQuotient(Times(100, homeWinProb), rest)
    IN  [homeTeamOdds |-> IF homeFavorite THEN favoriteOdds ELSE underdogOdds,
         awayTeamOdds |-> IF homeFavorite THEN underdogOdds ELSE favoriteOdds]

\* One entry of the returned array: the away string takes the '+' branch
\* with awayPlus added, the other branch with awayMinus added.
FallbackSite(name, logo, url, ml, baseTotal, homeAdd, awayPlus, awayMinus, totalAdd) ==
    [name |-> name,
     logo |-> logo,
     url |-> url,
     odds |-> [homeTeamOdds |-> ValueToString(Plus(ml.homeTeamOdds, homeAdd)),
               awayTeamOdds |-> IF Positive(ml.awayTeamOdds)
                                THEN "+" \o ValueToString(Plus(ml.awayTeamOdds, awayPlus))
                                ELSE ValueToString(Plus(ml.awayTeamOdds, awayMinus)),
               overUnder |-> "O/U " \o ToFixed1(Plus(baseTotal, totalAdd))]]

\* the numbers of generateDataDrivenOdds with 70 as the rating of a team
\* the table does not hold
OddsPredictionDefault70(home, away) ==
    LET homeRating == OrDefault(Lookup(TEAM_RATINGS, home), 7000)
        awayRating == OrDefault(Lookup(TEAM_RATINGS, away), 7000)
        spread == Spread(homeRating, awayRating)
        homeAvgScore == OrDefault(Lookup(TEAM_AVG_POINTS, home), 11200)
        awayAvgScore == OrDefault(Lookup(TEAM_AVG_POINTS, away), 11200)
        homeAvgAllowed == OrDefault(Lookup(TEAM_AVG_POINTS_ALLOWED, home), 11300)
        awayAvgAllowed == OrDefault(Lookup(TEAM_AVG_POINTS_ALLOWED, away), 11300)
    IN  [spread |-> spread,
         baseTotal |-> BaseTotal(homeAvgScore, awayAvgScore, homeAvgAllowed, awayAvgAllowed),
         homeWinProb |-> WinProbability(spread)]

\* lines 396-417: the numbers generateDataDrivenOdds derives before it
\* builds the strings.  home and away are property keys: an undefined
\* argument looks up "undefined".
OddsPrediction(home, away) ==
    LET homeRating == OrDefault(Lookup(TEAM_RATINGS, home), 7500)
        awayRating == OrDefault(Lookup(TEAM_RATINGS, away), 7500)
        spread == Spread(homeRating, awayRating)
        homeAvgScore == OrDefault(Lookup(TEAM_AVG_POINTS, home), 11200)
        awayAvgScore == OrDefault(Lookup(TEAM_AVG_POINTS, away), 11200)
        homeAvgAllowed == OrDefault(Lookup(TEAM_AVG_POINTS_ALLOWED, home), 11300)
        awayAvgAllowed == OrDefault(Lookup(TEAM_AVG_POINTS_ALLOWED, away), 11300)
    IN  [spread |-> spread,
         baseTotal |-> BaseTotal(homeAvgScore, awayAvgScore, homeAvgAllowed, awayAvgAllowed),
         homeWinProb |-> WinProbability(spread)]


\* lines 419-478
generateDataDrivenOdds(home, away) ==
    LET p == OddsPrediction(home, away)
        baseTotal == p.baseTotal
        ml == Moneylines(p.homeWinProb)
    IN  << FallbackSite("DraftKings", "/betting-logos/draft_kings.png",
                        "https://sportsbook.draftkings.com/leagues/basketball/nba",
                        ml, baseTotal, 0, 0, 0, 50),
           FallbackSite("FanDuel", "/betting-logos/fan_duel.png",
                        "https://sportsbook.fanduel.com/navigation/nba",
                        ml, baseTotal, -500, 500, -500, -100),
           FallbackSite("BetMGM", "/betting-logos/betMGM.png",
                        "https://sports.betmgm.com/en/sports/basketball-7/betting/usa-9/nba-6004",
                        ml, baseTotal, -1000, -500, -1000, 150),
           FallbackSite("Caesars", "/betting-logos/caesers_sportsbook.png",
                        "https://www.caesars.com/sportsbook-and-casino/sports/basketball/nba",
                        ml, baseTotal, 700, -1000, 700, 0) >>

----------------------------------------------------------------------------
(* The predictor's specification: every pair of team names, GameModal's    *)
(* timer callback and the fallback path of fetchBettingOdds.               *)

\* Names the tables do not hold: three plain ones and one that
\* Object.prototype holds.
UnknownTeams == {"Seattle SuperSonics", "Lakers", "Celtics", "constructor"}

TeamNames == DOMAIN TEAM_RATINGS \cup UnknownTeams

Null == [type |-> "null"]

NoPayload == [type |-> "none"]

NotParsed == [done |-> FALSE]

Pending == [resolved |-> FALSE]

NotFormatted == [done |-> FALSE]

PredictInit ==
    /\ homeTeam \in TeamNames
    /\ awayTeam \in TeamNames
    /\ loading = TRUE
    /\ predictionModel = Null
    /\ uncaught = FALSE
    /\ data = NoPayload
    /\ parsed = NotParsed
    /\ oddsData = Pending
    /\ again = NotParsed
    /\ oddsArgument = Undefined
    /\ formatted = NotFormatted
    /\ RouteIdle
    /\ cardOdds = Null
    /\ isLoadingOdds = TRUE
    /\ HomeIdle
    /\ ModalIdle
    /\ SitesIdle

\* GameModal.tsx 54-143: the setTimeout callback.  An exception leaves the
\* state as setLoading(true) left it.
TimerCallback ==
    /\ loading
    /\ ~uncaught
    /\ LET r == ModalPrediction(homeTeam, awayTeam)
       IN  IF r.threw
           THEN /\ uncaught' = TRUE
                /\ UNCHANGED <<loading, predictionModel>>
           ELSE /\ predictionModel' = [type |-> "object",
                                       predicted_total |-> r.predicted_total,
                                       predicted_spread |-> r.predicted_spread,
                                       home_win_probability |-> r.home_win_probability,
                                       key_factors |-> r.key_factors]
                /\ loading' = FALSE
                /\ UNCHANGED uncaught
    /\ UNCHANGED <<homeTeam, awayTeam, data, parsed, oddsData, again, oddsArgument, formatted>>
    /\ UNCHANGED routeVars
    /\ UNCHANGED cardVars
    /\ UNCHANGED homeVars
    /\ UNCHANGED modalVars
    /\ UNCHANGED sitesVars

\* the catch block with the exception thrown on instead of handled
CatchBlockRethrows(home, away) == [resolved |-> FALSE, rejected |-> TRUE]

\* betting-api.ts 23-26: the catch block; the promise resolves with its value
CatchBlock(home, away) ==
    [resolved |-> TRUE, sites |-> generateDataDrivenOdds(home, away)]

\* betting-api.ts 13-19 and 23-26: the request fails, the response is not
\* ok or its body is no JSON, and the catch block runs.
FetchFailed ==
    /\ ~oddsData.resolved
    /\ data = NoPayload
    /\ oddsData' = CatchBlock(homeTeam, awayTeam)
    /\ UNCHANGED <<homeTeam, awayTeam, loading, predictionModel, uncaught, data, parsed>>
    /\ UNCHANGED <<again, oddsArgument, formatted>>
    /\ UNCHANGED routeVars
    /\ UNCHANGED cardVars
    /\ UNCHANGED homeVars
    /\ UNCHANGED modalVars
    /\ UNCHANGED sitesVars

\* the value of a string of decimal digits
RECURSIVE DigitsValue(_)
DigitsValue(s) ==
    IF Len(s) = 0 THEN 0
    ELSE 10 * DigitsValue(SubSeq(s, 1, Len(s) - 1))
         + (CHOOSE d \in 0..9 : Digits[d + 1] = SubSeq(s, Len(s), Len(s)))

\* the length of the longest prefix of s made of decimal digits
RECURSIVE DigitPrefix(_)
DigitPrefix(s) ==
    IF Len(s) > 0 /\ \E d \in 1..10 : Digits[d] = SubSeq(s, 1, 1)
    THEN 1 + DigitPrefix(SubSeq(s, 2, Len(s)))
    ELSE 0

\* parseInt(s) for strings without white space: an optional sign and the
\* digits that follow it; NaN when no digit follows
ParseInt(s) ==
    LET signed == Len(s) > 0 /\ SubSeq(s, 1, 1) \in {"+", "-"}
        rest == IF signed THEN SubSeq(s, 2, Len(s)) ELSE s
        n == DigitPrefix(rest)
        value == 100 * DigitsValue(SubSeq(rest, 1, n))
    IN  IF n = 0 THEN NaN
        ELSE IF signed /\ SubSeq(s, 1, 1) = "-" THEN Num(-value) ELSE Num(value)

\* parseFloat(s) for strings without white space and exponent: as parseInt,
\* with up to two of the digits that follow a decimal point
ParseFloat(s) ==
    LET whole == ParseInt(s)
        signed == Len(s) > 0 /\ SubSeq(s, 1, 1) \in {"+", "-"}
        rest == IF signed THEN SubSeq(s, 2, Len(s)) ELSE s
        n == DigitPrefix(rest)
        after == SubSeq(rest, n + 2, Len(rest))
        k == IF n < Len(rest) /\ SubSeq(rest, n + 1, n + 1) = "."
             THEN DigitPrefix(after) ELSE 0
        fraction == IF k = 0 THEN 0
                    ELSE IF k = 1 THEN 10 * DigitsValue(SubSeq(after, 1, 1))
                    ELSE DigitsValue(SubSeq(after, 1, 2))
    IN  IF ~IsNum(whole) THEN NaN
        ELSE IF whole.val < 0 \/ (signed /\ SubSeq(s, 1, 1) = "-")
        THEN Num(whole.val - fraction)
        ELSE Num(whole.val + fraction)

\* s.replace(t, '') for a one-character t: the first occurrence is removed
RemoveFirst(s, t) ==
    LET at == {i \in 1..Len(s) : SubSeq(s, i, i) = t}
    IN  IF at = {} THEN s
        ELSE LET i == CHOOSE j \in at : \A k \in at : j <= k
             IN  SubSeq(s, 1, i - 1) \o SubSeq(s, i + 1, Len(s))

\* GameCard 223-225: the home win probability implied by the home moneyline
ImpliedProbability(homeOdds) ==
    IF Less(homeOdds, Num(0))
    THEN Num(100 * RoundDiv(100 * (-homeOdds.val), -homeOdds.val + 10000))
    ELSE IF IsNum(homeOdds)
    THEN Num(100 * RoundDiv(100 * 10000, homeOdds.val + 10000))
    ELSE NaN

\* GameCard 219-242: the object passed to setOdds for the DraftKings entry
CardOddsOf(draftKingsOdds) ==
    LET homeOdds == ParseInt(draftKingsOdds.odds.homeTeamOdds)
        awayOdds == ParseInt(RemoveFirst(draftKingsOdds.odds.awayTeamOdds, "+"))
        homeWinProb == ImpliedProbability(homeOdds)
        homeIsLower == Less(homeOdds, awayOdds)
        spread == IF homeIsLower THEN Times(-10, homeOdds) ELSE Times(10, awayOdds)
        size == IF IsNum(spread) THEN Num(Abs(spread.val) \div 100) ELSE NaN
    IN  [type |-> "object",
         homeMoneyline |-> homeOdds,
         awayMoneyline |-> awayOdds,
         spread |-> IF homeIsLower THEN Sub(Num(0), size) ELSE size,
         totalPoints |-> ParseFloat(SubSeq(draftKingsOdds.odds.overUnder, 5,
                                          Len(draftKingsOdds.odds.overUnder))),
         homeWinProb |-> homeWinProb,
         awayWinProb |-> Sub(Num(10000), homeWinProb)]

\* GameCard 206-252: loadOdds after fetchBettingOdds resolved: the summary
\* is taken from the entry named DraftKings, if there is one
CardLoadOdds ==
    /\ isLoadingOdds
    /\ oddsData.resolved
    /\ LET bettingData == oddsData.sites
           draftKingsOdds ==
               Find(bettingData,
                    {i \in 1..Len(bettingData) : bettingData[i].name = "DraftKings"})
       IN  cardOdds' = IF Len(draftKingsOdds) = 1
                       THEN CardOddsOf(draftKingsOdds[1])
                       ELSE cardOdds
    /\ isLoadingOdds' = FALSE
    /\ UNCHANGED <<homeTeam, awayTeam, loading, predictionModel, uncaught, data, parsed>>
    /\ UNCHANGED <<oddsData, again, oddsArgument, formatted>>
    /\ UNCHANGED routeVars
    /\ UNCHANGED homeVars
    /\ UNCHANGED modalVars
    /\ UNCHANGED sitesVars

PredictNext == TimerCallback \/ FetchFailed \/ CardLoadOdds

PredictSpec == PredictInit /\ [][PredictNext]_vars

----------------------------------------------------------------------------
(* Claims about the predictor, checked under PredictSpec *)

\* The prediction GameModal installed, and the one generateDataDrivenOdds
\* computed for the fallback set fetchBettingOdds resolved with.
ModalDone == predictionModel.type = "object"

OddsDone == oddsData.resolved

\* strength, pointsFor and pointsAllowed as the specification reads the
\* tables: the entry, or the league-average default for a missing team
StrengthOf(t) == IF t \in DOMAIN TEAM_RATINGS THEN TEAM_RATINGS[t] ELSE 7500

PointsForOf(t) == IF t \in DOMAIN TEAM_AVG_POINTS THEN TEAM_AVG_POINTS[t] ELSE 11200

PointsAllowedOf(t) ==
    IF t \in DOMAIN TEAM_AVG_POINTS_ALLOWED THEN TEAM_AVG_POINTS_ALLOWED[t] ELSE 11300

\* round to one decimal, halves up, of a number of hundredths
RoundToTenth(v) == ((v + 5) \div 10) * 10

\* x is an integer of [5, 95]
IntegerIn5To95(x) == IsNum(x) /\ x.val % 100 = 0 /\ x.val >= 500 /\ x.val <= 9500

\* C1: for every pair of team names, also names absent from the rating
\* tables, the prediction's homeWinProbability is an integer in [5, 95].
C1_WinProbabilityInRange ==
    /\ ModalDone => IntegerIn5To95(predictionModel.home_win_probability)
    /\ OddsDone => IntegerIn5To95(OddsPrediction(homeTeam, awayTeam).homeWinProb)

\* C2: the predicted spread is round1(strength[away] - strength[home] + 2.5),
\* a missing team counting as 75, and it is negative exactly when the home
\* team is favored (its win probability is above 50).
C2_SpreadFormula ==
    LET expected == RoundToTenth(StrengthOf(awayTeam) - StrengthOf(homeTeam) + 250)
        Holds(spread, prob) ==
            /\ spread = Num(expected)
            /\ IsNum(prob)
            /\ (spread.val < 0) <=> (prob.val > 5000)
    IN  /\ ModalDone => Holds(predictionModel.predicted_spread,
                              predictionModel.home_win_probability)
        /\ OddsDone => Holds(OddsPrediction(homeTeam, awayTeam).spread,
                             OddsPrediction(homeTeam, awayTeam).homeWinProb)

\* clamp(round(50 - spread * 3.3), 5, 95) of a spread (NaN of NaN)
ClampedProbability(spread) ==
    IF ~IsNum(spread) THEN NaN
    ELSE LET thousandths == 50000 - 33 * spread.val
             percent == (thousandths + 500) \div 1000
         IN  Num(100 * (IF percent > 95 THEN 95 ELSE IF percent < 5 THEN 5 ELSE percent))

C4_TotalFormula ==
    LET twice == PointsForOf(homeTeam) + PointsAllowedOf(awayTeam)
                 + PointsForOf(awayTeam) + PointsAllowedOf(homeTeam)
        expected == ((twice + 10) \div 20) * 10
    IN  /\ ModalDone => predictionModel.predicted_total = Num(expected)
        /\ OddsDone => OddsPrediction(homeTeam, awayTeam).baseTotal = Num(expected)

\* C5: for teams a, b of the rating table,
\* predict(a, b).spread + predict(b, a).spread = 2 * HOME_COURT_ADVANTAGE.
C5_SwapSymmetry ==
    (homeTeam \in DOMAIN TEAM_RATINGS /\ awayTeam \in DOMAIN TEAM_RATINGS) =>
        /\ ModalDone =>
              /\ IsNum(predictionModel.predicted_spread)
              /\ predictionModel.predicted_spread.val
                   + ModalPrediction(awayTeam, homeTeam).predicted_spread.val
                 = 2 * HOME_COURT_ADVANTAGE
        /\ OddsDone =>
              /\ IsNum(OddsPrediction(homeTeam, awayTeam).spread)
              /\ OddsPrediction(homeTeam, awayTeam).spread.val
                   + OddsPrediction(awayTeam, homeTeam).spread.val
                 = 2 * HOME_COURT_ADVANTAGE

\* C5's case: both predictions made for two different table teams
C5_Witness ==
    /\ ModalDone
    /\ OddsDone
    /\ homeTeam = "Boston Celtics"
    /\ awayTeam = "Detroit Pistons"
    /\ predictionModel.predicted_spread = Num(-3450)

\* C6: the predictor never fails: for a team missing from a table it
\* substitutes strength 75, pointsFor 112, pointsAllowed 113 and returns a
\* complete result (spread, total, win probability, key factors) without
\* raising an error.
C6_PredictorNeverFails ==
    /\ ~uncaught
    /\ ModalDone =>
          /\ predictionModel.predicted_spread
                = Num(RoundToTenth(StrengthOf(awayTeam) - StrengthOf(homeTeam) + 250))
          /\ IsNum(predictionModel.predicted_total)
          /\ IsNum(predictionModel.home_win_probability)
          /\ Len(predictionModel.key_factors) >= 5
    /\ OddsDone =>
          /\ IsNum(OddsPrediction(homeTeam, awayTeam).spread)
          /\ IsNum(OddsPrediction(homeTeam, awayTeam).baseTotal)
          /\ IsNum(OddsPrediction(homeTeam, awayTeam).homeWinProb)

----------------------------------------------------------------------------
(* Strings *)

UpperCaseLetters == "ABCDEFGHIJKLMNOPQRSTUVWXYZ"

LowerCaseLetters == "abcdefghijklmnopqrstuvwxyz"

\* the lower-case letter of each upper-case letter
LowerCaseOf ==
    [c \in {SubSeq(UpperCaseLetters, i, i) : i \in 1..26} |->
        LET i == CHOOSE k \in 1..26 : SubSeq(UpperCaseLetters, k, k) = c
        IN  SubSeq(LowerCaseLetters, i, i)]

CharToLowerCase(c) == IF c \in DOMAIN LowerCaseOf THEN LowerCaseOf[c] ELSE c

\* s.toLowerCase(), letter by letter
RECURSIVE ToLowerCaseOf(_)
ToLowerCaseOf(s) ==
    IF Len(s) = 0 THEN ""
    ELSE CharToLowerCase(SubSeq(s, 1, 1)) \o ToLowerCaseOf(SubSeq(s, 2, Len(s)))

\* The keys, titles and names the payloads and requests are made of; their
\* lower-case forms are computed once instead of at every call.
FrequentStrings ==
    {"draftkings", "fanduel", "betmgm", "caesars", "williamhill_us", "bovada", "DK",
     "DraftKings", "FanDuel", "BetMGM", "Caesars", "William Hill (US)", "Bovada",
     "BetMGM x Caesars", "Los Angeles Lakers", "Boston Celtics", "Lakers", "Celtics",
     "constructor", "Over", "Under", "OVER", "UNDER"}

LowerCaseForms == [s \in FrequentStrings |-> ToLowerCaseOf(s)]

\* s.toLowerCase()
ToLowerCase(s) ==
    IF s \in FrequentStrings THEN LowerCaseForms[s] ELSE ToLowerCaseOf(s)

\* s.includes(t)
Includes(s, t) ==
    \E i \in 0..(Len(s) - Len(t)) : SubSeq(s, i + 1, i + Len(t)) = t

\* s.startsWith(t)
StartsWith(s, t) == Len(t) <= Len(s) /\ SubSeq(s, 1, Len(t)) = t

----------------------------------------------------------------------------
(* parseOddsApiResponse and its helpers, betting-api.ts 32-279 *)

\* A JSON object is a record; an absent property is an absent field.
Has(object, property) == property \in DOMAIN object

caesarsVariants == {"caesars", "caesarssportsbook", "caesars_palace", "williamhill_us"}

keyMapping ==
    ("williamhill_us" :> "caesars") @@ ("caesarssportsbook" :> "caesars") @@
    ("caesars_palace" :> "caesars") @@ ("dk" :> "draftkings") @@
    ("fd" :> "fanduel") @@ ("mgm" :> "betmgm")

\* the standardized key with keyMapping left out
StandardKeyUnmapped(key) == ToLowerCase(key)

\* keyMapping[key.toLowerCase()] || key.toLowerCase()
StandardKey(key) ==
    LET k == ToLowerCase(key)
    IN  IF k \in DOMAIN keyMapping THEN keyMapping[k] ELSE k

\* the filter's test on the key as spelled, without aliases and case folding
RetainedAsSpelled(bookmaker) ==
    bookmaker.key \in {"betmgm", "draftkings", "fanduel", "caesars"}

\* lines 63-67: the filter's test of one bookmaker that has a key
Retained(bookmaker) ==
    \/ StandardKey(bookmaker.key) \in {"betmgm", "draftkings", "fanduel"}
    \/ ToLowerCase(bookmaker.key) \in caesarsVariants

\* lines 73-75: filteredBookmakers.some(...), in order; "throw" when
\* b.title.toLowerCase() is reached for a bookmaker without a title
RECURSIVE HasCaesars(_)
HasCaesars(bookmakers) ==
    IF Len(bookmakers) = 0 THEN "false"
    ELSE LET b == Head(bookmakers)
         IN  IF ToLowerCase(b.key) \in caesarsVariants THEN "true"
             ELSE IF ~Has(b, "title") THEN "throw"
             ELSE IF Includes(ToLowerCase(b.title), "caesars") THEN "true"
             ELSE HasCaesars(Tail(bookmakers))

\* bookmaker.markets?.find(m => m.key === key)
MarketOf(bookmaker, key) ==
    IF Has(bookmaker, "markets")
    THEN Find(bookmaker.markets,
              {i \in 1..Len(bookmaker.markets) : bookmaker.markets[i].key = key})
    ELSE <<>>

\* lines 100-112 and 176-188: the test of one h2h outcome against a team;
\* token is 'home' or 'away'
MatchesTeam(outcome, team, token) ==
    LET name == ToLowerCase(IF Has(outcome, "name") THEN outcome.name ELSE "")
    IN  \/ name = ToLowerCase(team)
        \/ Includes(name, token)
        \/ (Includes(ToLowerCase(team), name) /\ Len(name) > 3)

\* market?.outcomes of a market <<>> or <<m>>: no outcome to test when absent
OutcomesOf(market) ==
    IF Len(market) = 1 /\ Has(market[1], "outcomes") THEN market[1].outcomes ELSE <<>>

HomeOutcome(bookmaker, team) ==
    LET outcomes == OutcomesOf(MarketOf(bookmaker, "h2h"))
    IN  Find(outcomes, {i \in 1..Len(outcomes) : MatchesTeam(outcomes[i], team, "home")})

AwayOutcome(bookmaker, team) ==
    LET outcomes == OutcomesOf(MarketOf(bookmaker, "h2h"))
    IN  Find(outcomes, {i \in 1..Len(outcomes) : MatchesTeam(outcomes[i], team, "away")})

\* o.name === 'Over' || o.name === 'over'
OverOutcome(bookmaker) ==
    LET outcomes == OutcomesOf(MarketOf(bookmaker, "totals"))
    IN  Find(outcomes, {i \in 1..Len(outcomes) :
                           Has(outcomes[i], "name") /\ outcomes[i].name \in {"Over", "over"}})

\* formatAmericanOdds without the decimal-odds conversion of lines 232-242
formatAmericanOddsAsIs(odds) ==
    IF odds >= 0 THEN "+" \o NumberToString(odds) ELSE NumberToString(odds)

\* lines 231-249: the argument is a number, odds hundredths
formatAmericanOdds(odds) ==
    IF odds > 100 /\ odds < 1000
    THEN IF odds >= 200
         THEN "+" \o NumberToString(RoundDiv(odds - 100, 1) * 100)
         ELSE NumberToString(RoundDiv(-10000, odds - 100) * 100)
    ELSE IF odds >= 0 THEN "+" \o NumberToString(odds)
         ELSE NumberToString(odds)

\* lines 225-250, for an argument that need not be a number: undefined and
\* null give the default; NaN fails every comparison and prints as 'NaN'
formatAmericanOddsOf(x) ==
    IF x.type \in {"undefined", "null"} THEN "+100"
    ELSE IF x.type = "NaN" THEN "NaN"
    ELSE formatAmericanOdds(x.val)

\* lines 255-264
getLogoFileName(key) ==
    CASE key = "draftkings" -> "draft_kings.png"
      [] key = "fanduel" -> "fan_duel.png"
      [] key = "betmgm" -> "betMGM.png"
      [] key = "caesars" -> "caesers_sportsbook.png"
      [] OTHER -> key \o ".png"

\* lines 269-279
getBettingSiteUrl(key) ==
    CASE key = "draftkings" -> "https://sportsbook.draftkings.com/leagues/basketball/nba"
      [] key = "fanduel" -> "https://sportsbook.fanduel.com/navigation/nba"
      [] key = "betmgm" ->
            "https://sports.betmgm.com/en/sports/basketball-7/betting/usa-9/nba-6004"
      [] key = "caesars" ->
            "https://www.caesars.com/sportsbook-and-casino/sports/basketball/nba"
      [] OTHER -> "https://www.espn.com/nba/lines"

\* lines 171-199: the bookmakers whose three outcomes are all found
ValidBookmakers(bookmakers, home, away) ==
    SelectSeq(bookmakers,
              LAMBDA b : /\ Len(MarketOf(b, "h2h")) = 1
                         /\ Len(MarketOf(b, "totals")) = 1
                         /\ Len(HomeOutcome(b, home)) = 1
                         /\ Len(AwayOutcome(b, away)) = 1
                         /\ Len(OverOutcome(b)) = 1)

\* the sum a forEach accumulates over the numbers of an array
RECURSIVE SumOf(_)
SumOf(numbers) ==
    IF Len(numbers) = 0 THEN 0
    ELSE Head(numbers) + SumOf(Tail(numbers))

\* lines 144-163 and 209-216: the template with its three numbers filled in
MockCaesars(home, away, homePrice, awayPrice, overPoint) ==
    [key |-> "caesars",
     title |-> "Caesars",
     markets |-> << [key |-> "h2h",
                     outcomes |-> << [name |-> home, price |-> homePrice],
                                     [name |-> away, price |-> awayPrice] >>],
                    [key |-> "totals",
                     outcomes |-> << [name |-> "Over", point |-> overPoint],
                                     [name |-> "Under", point |-> 0] >>] >>]

\* generateMockCaesars with the averaging left out: always the default line
generateMockCaesarsDefaultLine(bookmakers, home, away) ==
    MockCaesars(home, away, -11000, -11000, 21550)

\* lines 142-220
generateMockCaesars(bookmakers, home, away) ==
    LET valid == ValidBookmakers(bookmakers, home, away)
        validBookmakers == Len(valid)
        homeOddsSum == SumOf([i \in 1..Len(valid) |-> HomeOutcome(valid[i], home)[1].price])
        awayOddsSum == SumOf([i \in 1..Len(valid) |-> AwayOutcome(valid[i], away)[1].price])
        totalPointsSum == SumOf([i \in 1..Len(valid) |-> OverOutcome(valid[i])[1].point])
        homeOdds == RoundDiv(homeOddsSum, 100 * validBookmakers) * 100
        awayOdds == RoundDiv(awayOddsSum, 100 * validBookmakers) * 100
        totalPoints == RoundDiv(totalPointsSum, 10 * validBookmakers) * 10
    IN  IF validBookmakers > 0
        THEN MockCaesars(home, away, homeOdds + 500, awayOdds - 500, totalPoints - 50)
        ELSE MockCaesars(home, away, -11000, -11000, 21550)

\* a missing price taken as 0
PriceOrZero(outcome) ==
    IF Len(outcome) = 1 /\ Has(outcome[1], "price") THEN outcome[1].price ELSE 0

\* lines 117-118: outcome?.price ?? 100, outcome being <<>> or <<o>>
PriceOrDefault(outcome) ==
    IF Len(outcome) = 1 /\ Has(outcome[1], "price") THEN outcome[1].price ELSE 10000

\* line 119: overOutcome?.point ?? 215
PointOrDefault(outcome) ==
    IF Len(outcome) = 1 /\ Has(outcome[1], "point") THEN outcome[1].point ELSE 21500

\* lines 91-136: the entry of one bookmaker
SiteOf(bookmaker, home, away) ==
    LET standardKey == StandardKey(bookmaker.key)
        homeOutcome == HomeOutcome(bookmaker, home)
        awayOutcome == AwayOutcome(bookmaker, away)
        overOutcome == OverOutcome(bookmaker)
        homeTeamOdds == PriceOrDefault(homeOutcome)
        awayTeamOdds == PriceOrDefault(awayOutcome)
        total == PointOrDefault(overOutcome)
        displayName == IF standardKey = "caesars" THEN "Caesars"
                       ELSE IF Has(bookmaker, "title") /\ bookmaker.title # ""
                            THEN bookmaker.title
                       ELSE IF bookmaker.key # "" THEN bookmaker.key
                       ELSE "Unknown"
    IN  [name |-> displayName,
         logo |-> "/betting-logos/" \o getLogoFileName(standardKey),
         url |-> getBettingSiteUrl(standardKey),
         odds |-> [homeTeamOdds |-> formatAmericanOdds(homeTeamOdds),
                   awayTeamOdds |-> formatAmericanOdds(awayTeamOdds),
                   overUnder |-> "O/U " \o NumberToString(total)]]

Returned(sites) == [done |-> TRUE, threw |-> FALSE, sites |-> sites]

Threw == [done |-> TRUE, threw |-> TRUE, sites |-> <<>>]

\* a || b of two strings
OrString(a, b) == IF a # "" THEN a ELSE b

\* the mock entry put in front of the retained quotes instead of behind them
PushMockFirst(filteredBookmakers, mockCaesars) == <<mockCaesars>> \o filteredBookmakers

\* line 82: filteredBookmakers.push(mockCaesars)
PushMock(filteredBookmakers, mockCaesars) == Append(filteredBookmakers, mockCaesars)

\* the empty result of mapping no bookmaker, returned as it is
NoneRetainedMapsNothing(home, away) == Returned(<<>>)

\* lines 86-89: none of the desired bookmakers was found, the model-derived
\* set is returned for all of them
NoneRetained(home, away) == Returned(generateDataDrivenOdds(home, away))

\* lines 32-137.  Every payload of the model carries original_request and
\* the event's own team names, so homeTeam and awayTeam are strings.
parseOddsApiResponse(d) ==
    LET home == OrString(d.original_request.home_team, d.home_team)
        away == OrString(d.original_request.away_team, d.away_team)
    IN  IF ~Has(d, "bookmakers") \/ Len(d.bookmakers) = 0
        THEN Returned(generateDataDrivenOdds(d.original_request.home_team,
                                             d.original_request.away_team))
        ELSE IF \E i \in 1..Len(d.bookmakers) : ~Has(d.bookmakers[i], "key")
        THEN Threw
        ELSE LET filteredBookmakers == SelectSeq(d.bookmakers, Retained)
                 hasCaesars == HasCaesars(filteredBookmakers)
                 withMock ==
                     IF hasCaesars = "false" /\ Len(filteredBookmakers) > 0
                     THEN PushMock(filteredBookmakers,
                                   generateMockCaesars(filteredBookmakers, home, away))
                     ELSE filteredBookmakers
             IN  IF hasCaesars = "throw" THEN Threw
                 ELSE IF Len(withMock) = 0
                 THEN NoneRetained(home, away)
                 ELSE Returned([i \in 1..Len(withMock) |-> SiteOf(withMock[i], home, away)])

----------------------------------------------------------------------------
(* The odds specification: fetchBettingOdds for a request, over the       *)
(* responses the /api/odds route can send.                                 *)

\* the most bookmakers in a response
MaxBookmakers == 3

\* the event's own team names in the provider's feed
FeedHome == "Los Angeles Lakers"

FeedAway == "Boston Celtics"

\* (homeTeam, awayTeam) of the request: the feed's names, short names the
\* feed's outcome names only contain, and a name no table has as its own key
RequestPairs ==
    {<<"Los Angeles Lakers", "Boston Celtics">>,
     <<"Lakers", "Celtics">>,
     <<"constructor", "Boston Celtics">>}

\* quoted (home price, away price, total): American odds
FirstLine == [home |-> -11000, away |-> -11000, over |-> 21550]

SecondLine == [home |-> -11500, away |-> 10500, over |-> 21600]

MarketsOf(line) ==
    << [key |-> "h2h",
        outcomes |-> << [name |-> FeedHome, price |-> line.home],
                        [name |-> FeedAway, price |-> line.away] >>],
       [key |-> "totals",
        outcomes |-> << [name |-> "Over", price |-> -11000, point |-> line.over],
                        [name |-> "Under", price |-> -11000, point |-> line.over] >>] >>

BookmakerTitles ==
    ("draftkings" :> "DraftKings") @@ ("fanduel" :> "FanDuel") @@
    ("betmgm" :> "BetMGM") @@ ("caesars" :> "Caesars") @@
    ("williamhill_us" :> "William Hill (US)") @@ ("bovada" :> "Bovada")

\* the lines each bookmaker of the feed quotes
LinesOf(key) ==
    CASE key = "draftkings" -> {FirstLine, SecondLine}
      [] key \in {"caesars", "williamhill_us"} -> {SecondLine}
      [] OTHER -> {FirstLine}

WellFormedQuotes ==
    UNION {{[key |-> k, title |-> BookmakerTitles[k], markets |-> MarketsOf(line)] :
               line \in LinesOf(k)} : k \in DOMAIN BookmakerTitles}

\* quotes that lack a field: the key, the title, the markets
PartialQuotes ==
    {[title |-> "DraftKings", markets |-> MarketsOf(FirstLine)],
     [key |-> "draftkings", markets |-> MarketsOf(FirstLine)],
     [key |-> "fanduel", title |-> "FanDuel"]}

\* complete quotes with an unusual spelling: a key in upper case that is
\* an alias, a title that mentions Caesars under another bookmaker's key,
\* totals outcomes named in upper case
UnusualQuotes ==
    {[key |-> "DK", title |-> "DraftKings", markets |-> MarketsOf(SecondLine)],
     [key |-> "betmgm", title |-> "BetMGM x Caesars", markets |-> MarketsOf(FirstLine)],
     [key |-> "fanduel", title |-> "FanDuel",
      markets |-> [MarketsOf(SecondLine) EXCEPT ![2].outcomes[1].name = "OVER",
                                                ![2].outcomes[2].name = "UNDER"]]}

Quotes == WellFormedQuotes \cup UnusualQuotes \cup PartialQuotes

BookmakerLists == UNION {[1..n -> Quotes] : n \in 0..MaxBookmakers}

\* odds/route.ts 64-71 and 85-92: the event with original_request added
Payloads(home, away) ==
    LET event == [home_team |-> FeedHome,
                  away_team |-> FeedAway,
                  original_request |-> [home_team |-> home, away_team |-> away]]
    IN  {event} \cup {event @@ [bookmakers |-> list] : list \in BookmakerLists}

Init ==
    /\ \E pair \in RequestPairs : homeTeam = pair[1] /\ awayTeam = pair[2]
    /\ loading = TRUE
    /\ predictionModel = Null
    /\ uncaught = FALSE
    /\ data = NoPayload
    /\ parsed = NotParsed
    /\ oddsData = Pending
    /\ again = NotParsed
    /\ oddsArgument = Undefined
    /\ formatted = NotFormatted
    /\ RouteIdle
    /\ CardIdle
    /\ HomeIdle
    /\ ModalIdle
    /\ SitesIdle

\* betting-api.ts 13-19: the response is ok and its body is read
ReceiveResponse ==
    /\ data = NoPayload
    /\ ~oddsData.resolved
    /\ \E body \in Payloads(homeTeam, awayTeam) : data' = body
    /\ UNCHANGED <<homeTeam, awayTeam, loading, predictionModel, uncaught, parsed, oddsData>>
    /\ UNCHANGED <<again, oddsArgument, formatted>>
    /\ UNCHANGED routeVars
    /\ UNCHANGED cardVars
    /\ UNCHANGED homeVars
    /\ UNCHANGED modalVars
    /\ UNCHANGED sitesVars

\* the payload after a call that had consumed its bookmakers array
ArgumentAfterParseDrained(d) ==
    IF Has(d, "bookmakers") THEN [d EXCEPT !.bookmakers = <<>>] ELSE d

\* The object passed to parseOddsApiResponse, after the call: lines 32-137
\* assign to no property of data; filter (63) and map (91) build new
\* arrays and push (82) acts on the array filter built.
ArgumentAfterParse(d) == d

\* betting-api.ts 22-26: the body is parsed; an exception of the parse is
\* caught and replaced by generateDataDrivenOdds
ParseResponse ==
    /\ data # NoPayload
    /\ ~parsed.done
    /\ parsed' = parseOddsApiResponse(data)
    /\ oddsData' = IF parsed'.threw
                   THEN CatchBlock(homeTeam, awayTeam)
                   ELSE [resolved |-> TRUE, sites |-> parsed'.sites]
    /\ data' = ArgumentAfterParse(data)
    /\ UNCHANGED <<homeTeam, awayTeam, loading, predictionModel, uncaught>>
    /\ UNCHANGED <<again, oddsArgument, formatted>>
    /\ UNCHANGED routeVars
    /\ UNCHANGED cardVars
    /\ UNCHANGED homeVars
    /\ UNCHANGED modalVars
    /\ UNCHANGED sitesVars

\* parseOddsApiResponse is called once more with the same object
ParseAgain ==
    /\ parsed.done
    /\ ~again.done
    /\ again' = parseOddsApiResponse(data)
    /\ data' = ArgumentAfterParse(data)
    /\ UNCHANGED <<homeTeam, awayTeam, loading, predictionModel, uncaught, parsed>>
    /\ UNCHANGED <<oddsData, oddsArgument, formatted>>
    /\ UNCHANGED routeVars
    /\ UNCHANGED cardVars
    /\ UNCHANGED homeVars
    /\ UNCHANGED modalVars
    /\ UNCHANGED sitesVars

Next == ReceiveResponse \/ ParseResponse \/ ParseAgain \/ FetchFailed

Spec == Init /\ [][Next]_vars

----------------------------------------------------------------------------
(* The formatter's specification: one call of formatAmericanOdds for each  *)
(* argument of a range of numbers and for the values that are no number.   *)

\* the largest magnitude, in hundredths, of the arguments taken one by one
MaxOddsArgument == 1250

\* prices as sportsbooks quote them, in hundredths
AmericanPrices == {100 * p : p \in {-10000, -250, -115, -110, 100, 105, 150, 10000}}

FormatArguments ==
    {Num(v) : v \in (-MaxOddsArgument..MaxOddsArgument) \cup AmericanPrices}
        \cup {NaN, Undefined, Null}

FormatInit ==
    /\ homeTeam = FeedHome
    /\ awayTeam = FeedAway
    /\ loading = TRUE
    /\ predictionModel = Null
    /\ uncaught = FALSE
    /\ data = NoPayload
    /\ parsed = NotParsed
    /\ oddsData = Pending
    /\ again = NotParsed
    /\ oddsArgument \in FormatArguments
    /\ formatted = NotFormatted
    /\ RouteIdle
    /\ CardIdle
    /\ HomeIdle
    /\ ModalIdle
    /\ SitesIdle

\* betting-api.ts 225-250: the call returns
FormatOdds ==
    /\ ~formatted.done
    /\ formatted' = [done |-> TRUE, string |-> formatAmericanOddsOf(oddsArgument)]
    /\ UNCHANGED <<homeTeam, awayTeam, loading, predictionModel, uncaught, data, parsed>>
    /\ UNCHANGED <<oddsData, again, oddsArgument>>
    /\ UNCHANGED routeVars
    /\ UNCHANGED cardVars
    /\ UNCHANGED homeVars
    /\ UNCHANGED modalVars
    /\ UNCHANGED sitesVars

FormatNext == FormatOdds

FormatSpec == FormatInit /\ [][FormatNext]_vars

----------------------------------------------------------------------------
(* Claims about formatAmericanOdds, checked under FormatSpec *)

\* C11: formatAmericanOdds(v): for 1 < v < 10 the value is converted from
\* decimal odds (v >= 2 gives '+' and round((v - 1) * 100); v < 2 gives
\* round(-100 / (v - 1)), which begins with '-'); every other number is
\* printed as-is with a '+' prefix exactly when it is non-negative; null
\* and undefined give '+100'; 2.5 gives '+150' and 1.91 begins with '-'.
C11_FormatAmericanOdds ==
    formatted.done =>
        LET x == oddsArgument
            s == formatted.string
        IN  /\ x.type \in {"undefined", "null"} => s = "+100"
            /\ (IsNum(x) /\ 200 <= x.val /\ x.val < 1000) =>
                  s = "+" \o NatToString(x.val - 100)
            /\ (IsNum(x) /\ 100 < x.val /\ x.val < 200) =>
                  LET n == x.val - 100
                  IN  \E r \in -10000..-101 :
                         /\ 2 * n * r - n <= -20000
                         /\ -20000 < 2 * n * r + n
                         /\ s = "-" \o NatToString(-r)
            /\ (IsNum(x) /\ (x.val <= 100 \/ x.val >= 1000)) =>
                  /\ s = (IF x.val >= 0 THEN "+" ELSE "") \o NumberToString(x.val)
                  /\ StartsWith(s, "+") <=> x.val >= 0
            /\ x.type = "NaN" => s = "NaN"
            /\ x = Num(250) => s = "+150"
            /\ x = Num(191) => StartsWith(s, "-")

\* C11's case: the decimal odds 1.91 were converted to the moneyline -110
C11_Witness ==
    /\ formatted.done
    /\ oddsArgument = Num(191)
    /\ formatted.string = "-110"

----------------------------------------------------------------------------
(* Claims about parseOddsApiResponse ("normalize"), checked under Spec *)

\* the four canonical bookmakers, in the order of the model-derived set
CanonicalNames == <<"DraftKings", "FanDuel", "BetMGM", "Caesars">>

\* the raw quotes of the payload; none when the list is absent
RawQuotes == IF Has(data, "bookmakers") THEN data.bookmakers ELSE <<>>

\* s is a decimal numeral: an optional sign, digits, an optional fraction
IsNumeral(s) ==
    LET body == IF StartsWith(s, "-") THEN SubSeq(s, 2, Len(s)) ELSE s
        dots == {i \in 1..Len(body) : SubSeq(body, i, i) = "."}
    IN  /\ Len(body) > 0
        /\ \A i \in 1..Len(body) : Includes("0123456789.", SubSeq(body, i, i))
        /\ Cardinality(dots) <= 1
        /\ \A i \in dots : 1 < i /\ i < Len(body)

\* s has the form 'O/U <number>'
IsTotalString(s) == StartsWith(s, "O/U ") /\ IsNumeral(SubSeq(s, 5, Len(s)))

\* the quote has a key that resolves to one of the four target bookmakers
ResolvesToTarget(quote) ==
    /\ Has(quote, "key")
    /\ StandardKey(quote.key) \in {"draftkings", "fanduel", "betmgm", "caesars"}

\* C7: when the payload's bookmaker list is empty or absent, or none of its
\* quotes has a key that resolves to one of the four target bookmakers,
\* normalize returns exactly the 4 model-derived entries (DraftKings,
\* FanDuel, BetMGM, Caesars), each with a total of the form 'O/U <number>'.
C7_FallbackSetOfFour ==
    (parsed.done /\ \A i \in DOMAIN RawQuotes : ~ResolvesToTarget(RawQuotes[i])) =>
        /\ ~parsed.threw
        /\ Len(parsed.sites) = 4
        /\ [i \in 1..4 |-> parsed.sites[i].name] = CanonicalNames
        /\ parsed.sites = generateDataDrivenOdds(homeTeam, awayTeam)
        /\ \A i \in 1..4 : IsTotalString(parsed.sites[i].odds.overUnder)

\* C8: for any raw odds input that normalize returns for, the entries are
\* exactly four, one per canonical bookmaker, none missing and none twice.
C8_ExactlyFourEntries ==
    (parsed.done /\ ~parsed.threw) =>
        /\ Len(parsed.sites) = 4
        /\ {parsed.sites[i].name : i \in 1..Len(parsed.sites)}
             = {CanonicalNames[i] : i \in 1..4}

\* the quote has a key, a title and both markets with their outcomes
IsComplete(quote) == quote \in WellFormedQuotes \cup UnusualQuotes

\* The quotes C9 is given: one complete quote of each of DraftKings,
\* FanDuel and BetMGM, under the bookmaker's key or an alias of it, and
\* besides them only quotes the filter drops.
C9_Given ==
    /\ parsed.done
    /\ \A i \in DOMAIN RawQuotes :
          /\ IsComplete(RawQuotes[i])
          /\ StandardKey(RawQuotes[i].key) \in {"draftkings", "fanduel", "betmgm", "bovada"}
    /\ \A k \in {"draftkings", "fanduel", "betmgm"} :
          Cardinality({i \in DOMAIN RawQuotes : StandardKey(RawQuotes[i].key) = k}) = 1

\* the quote of bookmaker k among the given ones
QuoteOf(k) ==
    RawQuotes[CHOOSE i \in DOMAIN RawQuotes : StandardKey(RawQuotes[i].key) = k]

\* the feed lists the home outcome first and the Over outcome first
HomePriceOf(quote) == quote.markets[1].outcomes[1].price

AwayPriceOf(quote) == quote.markets[1].outcomes[2].price

OverPointOf(quote) == quote.markets[2].outcomes[1].point

\* the quote's two h2h outcomes are resolved to the requested teams and
\* its Over outcome is spelled 'Over' or 'over'
Resolved(quote) ==
    /\ MatchesTeam(quote.markets[1].outcomes[1], homeTeam, "home")
    /\ MatchesTeam(quote.markets[1].outcomes[2], awayTeam, "away")
    /\ quote.markets[2].outcomes[1].name \in {"Over", "over"}

\* the given quotes that are resolved, by key
ResolvedKeys == {k \in {"draftkings", "fanduel", "betmgm"} : Resolved(QuoteOf(k))}

\* value if the quote of k is resolved, else nothing
Term(k, value) == IF k \in ResolvedKeys THEN value ELSE 0

\* the sums of the home prices, away prices and Over points of the resolved quotes
ResolvedHomeSum ==
    Term("draftkings", HomePriceOf(QuoteOf("draftkings")))
    + Term("fanduel", HomePriceOf(QuoteOf("fanduel")))
    + Term("betmgm", HomePriceOf(QuoteOf("betmgm")))

ResolvedAwaySum ==
    Term("draftkings", AwayPriceOf(QuoteOf("draftkings")))
    + Term("fanduel", AwayPriceOf(QuoteOf("fanduel")))
    + Term("betmgm", AwayPriceOf(QuoteOf("betmgm")))

ResolvedOverSum ==
    Term("draftkings", OverPointOf(QuoteOf("draftkings")))
    + Term("fanduel", OverPointOf(QuoteOf("fanduel")))
    + Term("betmgm", OverPointOf(QuoteOf("betmgm")))

ResolvedCount == Cardinality(ResolvedKeys)

\* the multiple of unit nearest to sum / n, halves up
Nearest(sum, n, unit) ==
    CHOOSE r \in {unit * k : k \in -3000..3000} :
        /\ 2 * n * r - n * unit <= 2 * sum
        /\ 2 * sum < 2 * n * r + n * unit

\* a given quote's title mentions Caesars
TitleMentionsCaesars ==
    \E i \in DOMAIN RawQuotes :
        /\ ResolvesToTarget(RawQuotes[i])
        /\ Includes(ToLowerCase(RawQuotes[i].title), "caesars")

\* the entry normalize appended
Appended == parsed.sites[Len(parsed.sites)]

IsWilliamHill(quote) == Has(quote, "key") /\ quote.key = "williamhill_us"

\* the payload with every 'williamhill_us' key replaced by 'caesars'
Renamed(d) ==
    [d EXCEPT !.bookmakers =
        [i \in DOMAIN d.bookmakers |->
            IF IsWilliamHill(d.bookmakers[i])
            THEN [d.bookmakers[i] EXCEPT !.key = "caesars"]
            ELSE d.bookmakers[i]]]

\* the positions of the entries shown as Caesars
CaesarsEntries ==
    {i \in 1..Len(parsed.sites) :
        /\ parsed.sites[i].name = "Caesars"
        /\ parsed.sites[i].logo = "/betting-logos/caesers_sportsbook.png"
        /\ parsed.sites[i].url
             = "https://www.caesars.com/sportsbook-and-casino/sports/basketball/nba"}

\* C10: a quote with key 'williamhill_us' is treated as the same quote with
\* key 'caesars': the output is that of the renamed payload, the quote
\* passes the filter, no Caesars entry is synthesized, and its entry has
\* the name 'Caesars' with Caesars' logo and url.
C10_WilliamHillIsCaesars ==
    (parsed.done /\ \E i \in DOMAIN RawQuotes : IsWilliamHill(RawQuotes[i])) =>
        /\ parsed = parseOddsApiResponse(Renamed(data))
        /\ ~parsed.threw =>
              /\ Len(parsed.sites)
                   = Cardinality({i \in DOMAIN RawQuotes : ResolvesToTarget(RawQuotes[i])})
              /\ Cardinality(CaesarsEntries)
                   = Cardinality({i \in DOMAIN RawQuotes :
                                     RawQuotes[i].key \in {"caesars", "williamhill_us"}})

\* C10's case: a 'williamhill_us' quote beside a DraftKings quote, shown as
\* the second of two entries under the name 'Caesars' with its own line
C10_Witness ==
    /\ parsed.done
    /\ ~parsed.threw
    /\ Len(RawQuotes) = 2
    /\ RawQuotes[1].key = "draftkings"
    /\ IsWilliamHill(RawQuotes[2])
    /\ RawQuotes[2].title = "William Hill (US)"
    /\ HomePriceOf(RawQuotes[2]) = -11500
    /\ homeTeam = FeedHome
    /\ Len(parsed.sites) = 2
    /\ CaesarsEntries = {2}
    /\ parsed.sites[2].odds = [homeTeamOdds |-> "-115", awayTeamOdds |-> "+105",
                               overUnder |-> "O/U 216"]

\* C12: normalize does not throw for malformed input: for any list of raw
\* quotes whose entries may lack the key, title, markets or outcomes
\* fields it returns a list of entries.
C12_NormalizeNeverThrows == parsed.done => ~parsed.threw

\* the call of fetchBettingOdds ended on its failure path: no body was
\* read, or the parse of the body raised
FailurePath == (oddsData # Pending /\ data = NoPayload) \/ (parsed.done /\ parsed.threw)

\* C13: fetchBettingOdds never rejects: when the request fails, the
\* response is not OK, the body cannot be parsed or the parse raises, it
\* resolves with the model-derived set of the requested (homeTeam, awayTeam).
C13_FetchNeverRejects ==
    FailurePath =>
        /\ oddsData.resolved
        /\ oddsData.sites = generateDataDrivenOdds(homeTeam, awayTeam)
        /\ [i \in 1..Len(oddsData.sites) |-> oddsData.sites[i].name] = CanonicalNames
        /\ (homeTeam = FeedHome /\ awayTeam = FeedAway) =>
              [i \in 1..4 |-> oddsData.sites[i].odds.overUnder]
                 = <<"O/U 229.5", "O/U 228.0", "O/U 230.5", "O/U 229.0">>

\* C13's case: the parse of a payload raised and the promise resolved with
\* the model-derived set of Lakers at home against the Celtics
C13_Witness ==
    /\ parsed.done
    /\ parsed.threw
    /\ homeTeam = FeedHome
    /\ awayTeam = FeedAway
    /\ oddsData.resolved
    /\ oddsData.sites[1].odds
         = [homeTeamOdds |-> "5", awayTeamOdds |-> "-1900", overUnder |-> "O/U 229.5"]

\* the raw quotes the filter retains, in the order of the payload
RetainedQuotes == SelectSeq(RawQuotes, ResolvesToTarget)

\* C14: the order of normalize's output follows the order of the retained
\* quotes in the input, and a synthesized Caesars entry, when present, is
\* the last entry.
C14_OutputFollowsInputOrder ==
    (parsed.done /\ ~parsed.threw /\ Len(RetainedQuotes) > 0) =>
        LET n == Len(RetainedQuotes)
        IN  /\ Len(parsed.sites) \in {n, n + 1}
            /\ \A j \in 1..n :
                  parsed.sites[j] = SiteOf(RetainedQuotes[j], homeTeam, awayTeam)
            /\ Len(parsed.sites) = n + 1 => parsed.sites[n + 1].name = "Caesars"

\* C14's case: FanDuel was quoted before DraftKings with a dropped quote
\* between them, and the synthesized Caesars entry follows both
C14_Witness ==
    /\ parsed.done
    /\ ~parsed.threw
    /\ Len(RawQuotes) = 3
    /\ RawQuotes[1].key = "fanduel"
    /\ RawQuotes[2].key = "bovada"
    /\ RawQuotes[3].key = "draftkings"
    /\ [i \in 1..Len(parsed.sites) |-> parsed.sites[i].name]
         = <<"FanDuel", "DraftKings", "Caesars">>

HasKeyAndTitle(quote) == Has(quote, "key") /\ Has(quote, "title")

\* C16: whenever the filtered set contains at least one quote and none of
\* its quotes has a canonical key of caesars, normalize synthesizes a
\* Caesars entry as the last entry, whatever the titles of the quotes are.
C16_SynthesizedWheneverKeyAbsent ==
    (/\ parsed.done
     /\ \A i \in DOMAIN RawQuotes : HasKeyAndTitle(RawQuotes[i])
     /\ Len(RetainedQuotes) > 0
     /\ \A j \in DOMAIN RetainedQuotes : StandardKey(RetainedQuotes[j].key) # "caesars") =>
        /\ ~parsed.threw
        /\ Len(parsed.sites) = Len(RetainedQuotes) + 1
        /\ Appended.name = "Caesars"
        /\ Appended = SiteOf(generateMockCaesars(RetainedQuotes, homeTeam, awayTeam),
                             homeTeam, awayTeam)

\* the match of an outcome name with a team as C17 states it: equal without
\* regard to case, either name containing the other, or the literal token
MatchesEitherWay(name, team, token) ==
    \/ ToLowerCase(name) = ToLowerCase(team)
    \/ Includes(ToLowerCase(name), ToLowerCase(team))
    \/ Includes(ToLowerCase(team), ToLowerCase(name))
    \/ Includes(ToLowerCase(name), token)

\* C17: an h2h outcome is matched to the home (resp. away) team when its
\* name equals the team name case-insensitively, when either of the two
\* names contains the other, or when it carries the token 'home' (resp.
\* 'away'); the price of the matched outcome is the one the entry shows,
\* also for outcome 'Los Angeles Lakers' and team 'Lakers'.
C17_OutcomeMatchedEitherWay ==
    (parsed.done /\ ~parsed.threw) =>
        \A j \in DOMAIN RetainedQuotes :
            LET quote == RetainedQuotes[j]
                h2h == quote.markets[1].outcomes
            IN  IsComplete(quote) =>
                  /\ MatchesEitherWay(h2h[1].name, homeTeam, "home") =>
                        parsed.sites[j].odds.homeTeamOdds
                          = formatAmericanOdds(HomePriceOf(quote))
                  /\ (/\ MatchesEitherWay(h2h[2].name, awayTeam, "away")
                      /\ ~MatchesEitherWay(h2h[1].name, awayTeam, "away")) =>
                        parsed.sites[j].odds.awayTeamOdds
                          = formatAmericanOdds(AwayPriceOf(quote))

\* C18: the totals market's Over outcome is located case-insensitively: an
\* outcome named 'Over', 'over', 'OVER' or any other casing of the word
\* supplies the total the entry shows.
C18_OverFoundInAnyCase ==
    (parsed.done /\ ~parsed.threw) =>
        \A j \in DOMAIN RetainedQuotes :
            LET quote == RetainedQuotes[j]
            IN  (/\ IsComplete(quote)
                 /\ ToLowerCase(quote.markets[2].outcomes[1].name) = "over") =>
                    parsed.sites[j].odds.overUnder
                      = "O/U " \o NumberToString(OverPointOf(quote))

\* C19: for a retained quote whose h2h market, totals market or matching
\* outcome is missing, the missing price defaults to 100 and the missing
\* total to 215: the entry shows '+100' for that moneyline and 'O/U 215'
\* for the total.
C19_MissingValuesDefaulted ==
    (parsed.done /\ ~parsed.threw) =>
        \A j \in DOMAIN RetainedQuotes :
            LET quote == RetainedQuotes[j]
                h2h == OutcomesOf(MarketOf(quote, "h2h"))
                totals == OutcomesOf(MarketOf(quote, "totals"))
            IN  /\ (\A i \in DOMAIN h2h : ~MatchesEitherWay(h2h[i].name, homeTeam, "home")) =>
                      parsed.sites[j].odds.homeTeamOdds = "+100"
                /\ (\A i \in DOMAIN h2h : ~MatchesEitherWay(h2h[i].name, awayTeam, "away")) =>
                      parsed.sites[j].odds.awayTeamOdds = "+100"
                /\ (\A i \in DOMAIN totals : ToLowerCase(totals[i].name) # "over") =>
                      parsed.sites[j].odds.overUnder = "O/U 215"

\* C19's case: a FanDuel quote without markets is shown with all three
\* defaults, and a DraftKings quote none of whose h2h outcomes is the
\* requested home team with '+100' for the home team beside its quoted
\* away price and total
C19_Witness ==
    /\ parsed.done
    /\ ~parsed.threw
    /\ homeTeam = "constructor"
    /\ Len(RawQuotes) = 2
    /\ RawQuotes[1].key = "fanduel"
    /\ ~Has(RawQuotes[1], "markets")
    /\ RawQuotes[2] \in WellFormedQuotes
    /\ RawQuotes[2].key = "draftkings"
    /\ AwayPriceOf(RawQuotes[2]) = 10500
    /\ parsed.sites[1].odds
         = [homeTeamOdds |-> "+100", awayTeamOdds |-> "+100", overUnder |-> "O/U 215"]
    /\ parsed.sites[2].odds
         = [homeTeamOdds |-> "+100", awayTeamOdds |-> "+105", overUnder |-> "O/U 216"]

\* the payload with the quotes the filter drops taken out
WithoutDropped(d) == [d EXCEPT !.bookmakers = RetainedQuotes]

\* C20: the filter keeps exactly the quotes whose alias-resolved key is one
\* of draftkings, fanduel, betmgm, caesars and drops every other quote; no
\* dropped quote contributes an entry or a value to the output: the output
\* is that of the payload without the dropped quotes.
C20_FilterKeepsTargetKeys ==
    (parsed.done /\ ~parsed.threw /\ Has(data, "bookmakers")) =>
        /\ \A i \in DOMAIN RawQuotes :
              Retained(RawQuotes[i])
                <=> StandardKey(RawQuotes[i].key)
                      \in {"draftkings", "fanduel", "betmgm", "caesars"}
        /\ SelectSeq(RawQuotes, Retained) = RetainedQuotes
        /\ parsed = parseOddsApiResponse(WithoutDropped(data))
        /\ Len(RetainedQuotes) > 0 =>
              Len(parsed.sites) \in {Len(RetainedQuotes), Len(RetainedQuotes) + 1}

\* C20's case: a quote under the alias 'DK' is kept and shown as
\* DraftKings, the Bovada quotes around it are dropped, and the output is
\* the DraftKings entry with its own line followed by the synthesized one
C20_Witness ==
    /\ parsed.done
    /\ ~parsed.threw
    /\ homeTeam = FeedHome
    /\ Len(RawQuotes) = 3
    /\ RawQuotes[1].key = "bovada"
    /\ RawQuotes[2].key = "DK"
    /\ RawQuotes[3].key = "bovada"
    /\ Len(parsed.sites) = 2
    /\ parsed.sites[1].name = "DraftKings"
    /\ parsed.sites[1].logo = "/betting-logos/draft_kings.png"
    /\ parsed.sites[1].odds
         = [homeTeamOdds |-> "-115", awayTeamOdds |-> "+105", overUnder |-> "O/U 216"]
    /\ parsed.sites[2].name = "Caesars"
    /\ parsed.sites[2].odds
         = [homeTeamOdds |-> "-110", awayTeamOdds |-> "+100", overUnder |-> "O/U 215.5"]

----------------------------------------------------------------------------
(* Claims about the key factors and the fallback set, checked under PredictSpec *)

\* the team a factor names: the home team when it is strictly better
Leader(homeIsBetter) == IF homeIsBetter THEN homeTeam ELSE awayTeam

\* C21: the key factors list starts with five entries in fixed order
\* (scoring efficiency, defense, offense, strength rating, home-court
\* constant); in each of the first four the home team is named as leader
\* only when it is strictly better on that dimension, and on an exact tie
\* the factor names the away team.
C21_KeyFactorsOrderAndTies ==
    ModalDone =>
        LET factors == predictionModel.key_factors
            forHome == PointsForOf(homeTeam)
            forAway == PointsForOf(awayTeam)
            allowedHome == PointsAllowedOf(homeTeam)
            allowedAway == PointsAllowedOf(awayTeam)
        IN  /\ Len(factors) >= 5
            /\ StartsWith(factors[1],
                   Leader(forHome * allowedAway > forAway * allowedHome)
                   \o " has better scoring efficiency (")
            /\ StartsWith(factors[2],
                   Leader(allowedHome < allowedAway) \o " has stronger defense (")
            /\ StartsWith(factors[3],
                   Leader(forHome > forAway) \o " has higher scoring offense (")
            /\ StartsWith(factors[4],
                   Leader(StrengthOf(homeTeam) > StrengthOf(awayTeam))
                   \o " has higher team rating (")
            /\ factors[5] = "Home court advantage adds 2.5 points to "
                              \o homeTeam \o "'s rating"

\* C21's case: the 76ers host the Clippers, who are rated 84 like them, and
\* the tied rating factor names the away team
C21_Witness ==
    /\ ModalDone
    /\ homeTeam = "Philadelphia 76ers"
    /\ awayTeam = "Los Angeles Clippers"
    /\ predictionModel.key_factors[4]
         = "Los Angeles Clippers has higher team rating (84) than Philadelphia 76ers (84)"

----------------------------------------------------------------------------
(* GET /api/odds, app/api/odds/route.ts 7-103 *)

\* a query parameter that is present; searchParams.get gives null otherwise
Param(s) == [type |-> "string", val |-> s]

\* !p of a parameter: null and the empty string are falsy
Falsy(p) == p.type = "null" \/ p.val = ""

\* s.trim() for strings whose only white space is the space
RECURSIVE Trim(_)
Trim(s) ==
    IF Len(s) > 0 /\ SubSeq(s, 1, 1) = " " THEN Trim(SubSeq(s, 2, Len(s)))
    ELSE IF Len(s) > 0 /\ SubSeq(s, Len(s), Len(s)) = " " THEN Trim(SubSeq(s, 1, Len(s) - 1))
    ELSE s

\* lines 39-46: the test of one event against the normalized team names
EventMatchesTeams(ev, normalizedHomeTeam, normalizedAwayTeam) ==
    LET evHomeTeam == Trim(ToLowerCase(ev.home_team))
        evAwayTeam == Trim(ToLowerCase(ev.away_team))
    IN  /\ \/ Includes(evHomeTeam, normalizedHomeTeam)
           \/ Includes(normalizedHomeTeam, evHomeTeam)
        /\ \/ Includes(evAwayTeam, normalizedAwayTeam)
           \/ Includes(normalizedAwayTeam, evAwayTeam)

\* lines 33-52: the event found by team names, else by id; <<>> for none
EventOf(req, events) ==
    LET byTeams ==
            IF ~Falsy(req.homeTeam) /\ ~Falsy(req.awayTeam)
            THEN Find(events,
                      {i \in 1..Len(events) :
                          EventMatchesTeams(events[i],
                                            Trim(ToLowerCase(req.homeTeam.val)),
                                            Trim(ToLowerCase(req.awayTeam.val)))})
            ELSE <<>>
    IN  IF Len(byTeams) = 0 /\ ~Falsy(req.gameId)
        THEN Find(events, {i \in 1..Len(events) : events[i].id = req.gameId.val})
        ELSE byTeams

\* NextResponse.json(body, { status }); the status is 200 when none is given
Json(body, status) == [type |-> "response", status |-> status, body |-> body]

\* lines 62-74 and 84-95: the event, with original_request when both team
\* names were given
WithOriginalRequest(ev, req) ==
    IF ~Falsy(req.homeTeam) /\ ~Falsy(req.awayTeam)
    THEN [original_request |-> [home_team |-> req.homeTeam.val,
                                away_team |-> req.awayTeam.val,
                                gameId |-> req.gameId]] @@ ev
    ELSE ev

\* lines 57-75: the first event of the feed as fallback
FallbackResponse(firstEvent, req) == Json(WithOriginalRequest(firstEvent, req), 200)

\* lines 7-103
GET(req, provider) ==
    IF Falsy(req.gameId) /\ (Falsy(req.homeTeam) \/ Falsy(req.awayTeam))
    THEN Json([error |-> "Missing gameId OR homeTeam and awayTeam parameters"], 400)
    ELSE IF provider.type = "failed"
    THEN Json([error |-> "Failed to fetch odds data"], 500)
    ELSE LET oddsEvents == provider.events
             event == EventOf(req, oddsEvents)
         IN  IF Len(event) = 0
             THEN IF Len(oddsEvents) > 0
                  THEN FallbackResponse(oddsEvents[1], req)
                  ELSE Json([error |-> "No odds found for this game"], 404)
             ELSE Json(WithOriginalRequest(event[1], req), 200)

\* the events of the provider's feed
LakersCeltics ==
    [id |-> "e1", home_team |-> "Los Angeles Lakers", away_team |-> "Boston Celtics",
     bookmakers |-> <<>>]

NuggetsHeat ==
    [id |-> "e2", home_team |-> "Denver Nuggets", away_team |-> "Miami Heat",
     bookmakers |-> <<>>]

\* the provider fails (the request rejects, the response is not ok or its
\* body is no JSON), or answers with a list of events
Feeds ==
    {[type |-> "failed"]} \cup
    {[type |-> "events", events |-> list] :
        list \in {<<>>, <<LakersCeltics>>, <<NuggetsHeat>>,
                  <<LakersCeltics, NuggetsHeat>>, <<NuggetsHeat, LakersCeltics>>}}

Requests ==
    [gameId : {Null, Param("e2"), Param("0022400123")},
     homeTeam : {Null, Param(""), Param("Los Angeles Lakers"), Param(" lakers "),
                 Param("Denver Nuggets")},
     awayTeam : {Null, Param("Boston Celtics"), Param("Celtics"), Param("Miami Heat")}]

RouteInit ==
    /\ homeTeam = FeedHome
    /\ awayTeam = FeedAway
    /\ loading = TRUE
    /\ predictionModel = Null
    /\ uncaught = FALSE
    /\ data = NoPayload
    /\ parsed = NotParsed
    /\ oddsData = Pending
    /\ again = NotParsed
    /\ oddsArgument = Undefined
    /\ formatted = NotFormatted
    /\ request \in Requests
    /\ feed \in Feeds
    /\ response = [type |-> "none"]
    /\ CardIdle
    /\ HomeIdle
    /\ ModalIdle
    /\ SitesIdle

\* the handler runs to its response
RouteResponds ==
    /\ response.type = "none"
    /\ response' = GET(request, feed)
    /\ UNCHANGED <<homeTeam, awayTeam, loading, predictionModel, uncaught, data, parsed>>
    /\ UNCHANGED <<oddsData, again, oddsArgument, formatted, request, feed>>
    /\ UNCHANGED cardVars
    /\ UNCHANGED homeVars
    /\ UNCHANGED modalVars
    /\ UNCHANGED sitesVars

RouteNext == RouteResponds

RouteSpec == RouteInit /\ [][RouteNext]_vars

\* no event of the feed matches the request, by team names or by game id
NoEventMatches ==
    /\ feed.type = "events"
    /\ \A i \in 1..Len(feed.events) :
          /\ ~(/\ ~Falsy(request.homeTeam)
               /\ ~Falsy(request.awayTeam)
               /\ EventMatchesTeams(feed.events[i],
                                    Trim(ToLowerCase(request.homeTeam.val)),
                                    Trim(ToLowerCase(request.awayTeam.val))))
          /\ ~(~Falsy(request.gameId) /\ feed.events[i].id = request.gameId.val)

\* C22: when no event of the provider feed matches the request by team
\* names or by game id and the feed is non-empty, GET /api/odds responds
\* with HTTP status 404 while carrying the first event's data as fallback.
C22_FallbackEventWithStatus404 ==
    (/\ response.type = "response"
     /\ response.status # 400
     /\ NoEventMatches
     /\ Len(feed.events) > 0) =>
        /\ response.status = 404
        /\ \A field \in DOMAIN feed.events[1] :
              response.body[field] = feed.events[1][field]

\* C23: the prediction computed inside GameModal and the one computed
\* inside generateDataDrivenOdds agree for every (home, away) pair: the two
\* copies of the formula yield the same spread, the same predicted total
\* and the same home win probability (NaN where the other is NaN).
C23_ModalAndOddsAgree ==
    LET modal == ModalPrediction(homeTeam, awayTeam)
        odds == OddsPrediction(homeTeam, awayTeam)
    IN  /\ modal.predicted_spread = odds.spread
        /\ modal.predicted_total = odds.baseTotal
        /\ modal.home_win_probability = odds.homeWinProb
        /\ ModalDone =>
              /\ predictionModel.predicted_spread = odds.spread
              /\ predictionModel.predicted_total = odds.baseTotal
              /\ predictionModel.home_win_probability = odds.homeWinProb

\* C23's case: for a team missing from the tables at home against the
\* Celtics the modal shows spread 22.5, total 226.1 and 5 percent, and the
\* fallback set was built from the same total
C23_Witness ==
    /\ ModalDone
    /\ OddsDone
    /\ homeTeam = "Seattle SuperSonics"
    /\ awayTeam = "Boston Celtics"
    /\ predictionModel.predicted_spread = Num(2250)
    /\ predictionModel.predicted_total = Num(22610)
    /\ predictionModel.home_win_probability = Num(500)
    /\ oddsData.sites[4].odds.overUnder = "O/U 226.1"

\* s consists of decimal digits only, at least one
IsDigits(s) == Len(s) > 0 /\ \A i \in 1..Len(s) : Includes("0123456789", SubSeq(s, i, i))

\* s is a well-formed signed integer: at most one leading '+' or '-',
\* followed only by decimal digits
IsSignedInteger(s) ==
    IF StartsWith(s, "+") \/ StartsWith(s, "-")
    THEN IsDigits(SubSeq(s, 2, Len(s)))
    ELSE IsDigits(s)

\* C24: every homeTeamOdds and awayTeamOdds string of the model-derived
\* fallback set, for every (home, away) pair of teams the tables hold, is a
\* well-formed signed integer.
C24_FallbackOddsWellFormed ==
    (OddsDone /\ homeTeam \in DOMAIN TEAM_RATINGS /\ awayTeam \in DOMAIN TEAM_RATINGS) =>
        \A i \in 1..Len(oddsData.sites) :
            /\ IsSignedInteger(oddsData.sites[i].odds.homeTeamOdds)
            /\ IsSignedInteger(oddsData.sites[i].odds.awayTeamOdds)

\* the moneyline string denotes a negative number: it carries a minus sign
IsNegativeLine(s) == Includes(s, "-")

\* C25: in the model-derived fallback set all four bookmakers agree on the
\* favorite: for every pair of table teams and every one of the four
\* entries, the home moneyline is negative exactly when homeWinProbability
\* >= 50 and the away moneyline is negative exactly when it is < 50.
C25_BookmakersAgreeOnFavorite ==
    (OddsDone /\ homeTeam \in DOMAIN TEAM_RATINGS /\ awayTeam \in DOMAIN TEAM_RATINGS) =>
        LET homeWinProbability == OddsPrediction(homeTeam, awayTeam).homeWinProb.val
        IN  \A i \in 1..Len(oddsData.sites) :
                /\ IsNegativeLine(oddsData.sites[i].odds.homeTeamOdds)
                     <=> homeWinProbability >= 5000
                /\ IsNegativeLine(oddsData.sites[i].odds.awayTeamOdds)
                     <=> homeWinProbability < 5000

\* C26: round trip between predictor and game card: for every pair of
\* table teams, the home win probability that GameCard derives from the
\* fallback set's DraftKings home moneyline equals the predictor's
\* homeWinProbability for that pair, up to 1 percentage point.
C26_CardProbabilityRoundTrip ==
    (/\ cardOdds.type = "object"
     /\ homeTeam \in DOMAIN TEAM_RATINGS
     /\ awayTeam \in DOMAIN TEAM_RATINGS) =>
        LET predicted == OddsPrediction(homeTeam, awayTeam).homeWinProb
        IN  /\ IsNum(cardOdds.homeWinProb)
            /\ Abs(cardOdds.homeWinProb.val - predicted.val) <= 100

----------------------------------------------------------------------------
(* The Home page (the second half of app/api/games/route.ts) and the games  *)
(* route it calls (lines 7-32 of the same file).                            *)

\* the state of the predictor, the odds client and the formatter
baseVars ==
    <<homeTeam, awayTeam, loading, predictionModel, uncaught, data, parsed, oddsData,
      again, oddsArgument, formatted>>

\* that state at rest, outside the specifications of those parts
BaseIdle ==
    /\ homeTeam = FeedHome
    /\ awayTeam = FeedAway
    /\ loading = TRUE
    /\ predictionModel = Null
    /\ uncaught = FALSE
    /\ data = NoPayload
    /\ parsed = NotParsed
    /\ oddsData = Pending
    /\ again = NotParsed
    /\ oddsArgument = Undefined
    /\ formatted = NotFormatted

\* a calendar date, the part of a Date that format(date, 'yyyyMMdd') reads
DateOf(year, month, day) == [type |-> "date", year |-> year, month |-> month, day |-> day]

IsLeapYear(year) == year % 4 = 0 /\ (year % 100 # 0 \/ year % 400 = 0)

DaysInMonth(year, month) ==
    IF month = 2 THEN (IF IsLeapYear(year) THEN 29 ELSE 28)
    ELSE IF month \in {4, 6, 9, 11} THEN 30
    ELSE 31

\* date-fns addDays(date, 1), as handleNextDay calls it
NextDay(date) ==
    IF date.day < DaysInMonth(date.year, date.month)
    THEN DateOf(date.year, date.month, date.day + 1)
    ELSE IF date.month < 12 THEN DateOf(date.year, date.month + 1, 1)
    ELSE DateOf(date.year + 1, 1, 1)

\* date-fns subDays(date, 1), as handlePrevDay calls it
PrevDay(date) ==
    IF date.day > 1 THEN DateOf(date.year, date.month, date.day - 1)
    ELSE IF date.month > 1
         THEN DateOf(date.year, date.month - 1, DaysInMonth(date.year, date.month - 1))
    ELSE DateOf(date.year - 1, 12, 31)

\* n written with at least two digits
TwoDigits(n) == IF n < 10 THEN "0" \o NatToString(n) ELSE NatToString(n)

\* format(date, 'yyyyMMdd') for years of four digits
FormatDate(date) == NatToString(date.year) \o TwoDigits(date.month) \o TwoDigits(date.day)

\* What scripts/espn_api.py prints for a date. The script is not part of the
\* sources; its output is a list of games of that date, here one game whose
\* id carries the date.
ScheduleOf(formattedDate) ==
    <<[game_id |-> formattedDate \o "01", home_team |-> "Boston Celtics",
       away_team |-> "Los Angeles Lakers", status |-> "Scheduled"]>>

\* GET /api/games?date=..., lines 7-32: the script's output, or status 500
\* when the script or the parsing of its output fails
GETGames(formattedDate, scriptRuns) ==
    IF scriptRuns THEN Json(ScheduleOf(formattedDate), 200)
    ELSE Json([error |-> "Failed to fetch games. Please try again later."], 500)

\* response.ok
Ok(res) == res.status \in 200..299

\* the sequence s without its i-th element
Without(s, i) == SubSeq(s, 1, i - 1) \o SubSeq(s, i + 1, Len(s))

\* the days on which the page is opened (new Date() at line 52)
Todays == {DateOf(2024, 2, 28), DateOf(2025, 2, 28), DateOf(2025, 12, 31)}

\* how many days away from the opening day the date picker is followed
MaxDaysAway == 2

\* how many requests for games are followed in flight at a time
MaxInFlight == 3

RECURSIVE Around(_, _)
Around(dates, n) ==
    IF n = 0 THEN dates
    ELSE Around(dates \cup {NextDay(d) : d \in dates} \cup {PrevDay(d) : d \in dates}, n - 1)

Calendar == Around(Todays, MaxDaysAway)

\* The page after its first render and the first run of the effect of lines
\* 104-111: fetchGames(selectedDate) has run up to its await of fetch.
HomeInit ==
    /\ BaseIdle
    /\ RouteIdle
    /\ CardIdle
    /\ selectedDate \in Todays
    /\ games = <<>>
    /\ isLoading = TRUE
    /\ error = Null
    /\ gamesRequests = <<FormatDate(selectedDate)>>
    /\ ModalIdle
    /\ SitesIdle

\* A click on one of the date picker's arrows: setDate(addDays(date, 1)) or
\* setDate(subDays(date, 1)), then the effect of lines 104-111 runs
\* fetchGames(selectedDate) up to its await of fetch (lines 81-88).
SelectDate ==
    /\ Len(gamesRequests) < MaxInFlight
    /\ \E date \in {NextDay(selectedDate), PrevDay(selectedDate)} :
          /\ date \in Calendar
          /\ selectedDate' = date
          /\ isLoading' = TRUE
          /\ error' = Null
          /\ gamesRequests' = Append(gamesRequests, FormatDate(date))
    /\ UNCHANGED games
    /\ UNCHANGED <<baseVars, routeVars, cardVars>>
    /\ UNCHANGED modalVars
    /\ UNCHANGED sitesVars

\* The response to one of the requests in flight arrives, whichever: the rest
\* of that call of fetchGames runs (lines 88-101).
GamesResponse ==
    /\ \E i \in 1..Len(gamesRequests), scriptRuns \in BOOLEAN :
          LET res == GETGames(gamesRequests[i], scriptRuns)
          IN  /\ IF Ok(res)
                 THEN /\ games' = res.body
                      /\ UNCHANGED error
                 ELSE /\ error' = Param("Failed to fetch games")
                      /\ UNCHANGED games
              /\ gamesRequests' = Without(gamesRequests, i)
    /\ isLoading' = FALSE
    /\ UNCHANGED selectedDate
    /\ UNCHANGED <<baseVars, routeVars, cardVars>>
    /\ UNCHANGED modalVars
    /\ UNCHANGED sitesVars

\* fetch rejects for one of the requests in flight (the network is down):
\* lines 97-101
GamesFetchFailed ==
    /\ \E i \in 1..Len(gamesRequests) :
          gamesRequests' = Without(gamesRequests, i)
    /\ error' = Param("Failed to fetch")
    /\ isLoading' = FALSE
    /\ UNCHANGED <<selectedDate, games>>
    /\ UNCHANGED <<baseVars, routeVars, cardVars>>
    /\ UNCHANGED modalVars
    /\ UNCHANGED sitesVars

HomeNext == SelectDate \/ GamesResponse \/ GamesFetchFailed

HomeSpec == HomeInit /\ [][HomeNext]_vars

\* C27: on the Home page, once no games request is in flight, the displayed
\* games list is the response to the request for the currently selected
\* date: a response to an earlier selection never overwrites the response
\* to a later one, in whatever order the responses arrive. (The list is
\* displayed when the page is neither loading nor showing an error.)
C27_GamesOfSelectedDate ==
    (gamesRequests = <<>> /\ ~isLoading /\ error = Null)
        => games = ScheduleOf(FormatDate(selectedDate))

----------------------------------------------------------------------------
(* A mounted GameModal whose game prop changes: the effect of GameModal.tsx *)
(* 51-144 (and 860-944) runs again at every change and starts a new timer;  *)
(* it returns no cleanup, so the timers already started stay pending.       *)

\* a game as the modal reads it
GameOf(id, home, away) ==
    [type |-> "object", game_id |-> id, home_team |-> home, away_team |-> away]

\* the games the prop takes; the last one makes the callback throw
ModalGames ==
    {GameOf("401", "Boston Celtics", "Los Angeles Lakers"),
     GameOf("402", "Detroit Pistons", "Denver Nuggets"),
     GameOf("403", "constructor", "Miami Heat")}

\* how many timers are followed pending at a time
MaxTimers == 3

\* lines 136-141: the object the callback hands to setPredictionModel
PredictionModelOf(home, away) ==
    LET r == ModalPrediction(home, away)
    IN  [type |-> "object",
         predicted_total |-> r.predicted_total,
         predicted_spread |-> r.predicted_spread,
         home_win_probability |-> r.home_win_probability,
         key_factors |-> r.key_factors]

\* lines 52-54: the effect for the current game, up to setTimeout
StartTimer(g) ==
    IF g = Null
    THEN UNCHANGED <<loading, timers>>
    ELSE /\ loading' = TRUE
         /\ timers' = Append(timers, g)

\* the modal after its first render and the first run of the effect
ModalInit ==
    /\ homeTeam = FeedHome
    /\ awayTeam = FeedAway
    /\ game \in ModalGames \cup {Null}
    /\ loading = TRUE
    /\ predictionModel = Null
    /\ uncaught = FALSE
    /\ timers = IF game = Null THEN <<>> ELSE <<game>>
    /\ data = NoPayload
    /\ parsed = NotParsed
    /\ oddsData = Pending
    /\ again = NotParsed
    /\ oddsArgument = Undefined
    /\ formatted = NotFormatted
    /\ RouteIdle
    /\ CardIdle
    /\ HomeIdle
    /\ SitesIdle

\* the parent renders the modal with another game (or with null): the
\* dependency [game] of line 144 changed, the effect runs again
GameChanges ==
    /\ Len(timers) < MaxTimers
    /\ \E g \in (ModalGames \cup {Null}) \ {game} :
          /\ game' = g
          /\ StartTimer(g)
    /\ UNCHANGED <<homeTeam, awayTeam, predictionModel, uncaught>>
    /\ UNCHANGED <<data, parsed, oddsData, again, oddsArgument, formatted>>
    /\ UNCHANGED <<routeVars, cardVars, homeVars>>
    /\ UNCHANGED sitesVars

\* The oldest pending timer fires (all timers have the same delay of 1000
\* ms): its callback, lines 54-143, runs for the game it captured.
TimerFires ==
    /\ timers # <<>>
    /\ LET g == Head(timers)
       IN  IF ModalPrediction(g.home_team, g.away_team).threw
           THEN /\ uncaught' = TRUE
                /\ UNCHANGED <<loading, predictionModel>>
           ELSE /\ predictionModel' = PredictionModelOf(g.home_team, g.away_team)
                /\ loading' = FALSE
                /\ UNCHANGED uncaught
    /\ timers' = Tail(timers)
    /\ UNCHANGED <<homeTeam, awayTeam, game>>
    /\ UNCHANGED <<data, parsed, oddsData, again, oddsArgument, formatted>>
    /\ UNCHANGED <<routeVars, cardVars, homeVars>>
    /\ UNCHANGED sitesVars

ModalNext == GameChanges \/ TimerFires

ModalSpec == ModalInit /\ [][ModalNext]_vars

\* C28: in GameModal, whenever loading is false and a prediction is shown,
\* that prediction was computed from the current game prop: a timer started
\* for an earlier game never sets loading to false or installs its
\* prediction after the game prop has changed.
C28_PredictionOfCurrentGame ==
    (~loading /\ predictionModel # Null /\ game # Null)
        => /\ ~ModalPrediction(game.home_team, game.away_team).threw
           /\ predictionModel = PredictionModelOf(game.home_team, game.away_team)

----------------------------------------------------------------------------
(* BettingSites.tsx: what the component renders of a site's moneylines      *)

\* line 111: the home moneyline as rendered
RenderedHomeOdds(site) ==
    IF Greater(ParseInt(site.odds.homeTeamOdds), Num(0))
    THEN "+" \o site.odds.homeTeamOdds
    ELSE site.odds.homeTeamOdds

\* line 117: the away moneyline as rendered
RenderedAwayOdds(site) ==
    IF StartsWith(site.odds.awayTeamOdds, "+")
    THEN site.odds.awayTeamOdds
    ELSE "+" \o site.odds.awayTeamOdds

\* C29: BettingSites renders each moneyline with at most one sign character:
\* for every odds string that fetchBettingOdds returns, from
\* formatAmericanOdds or from the fallback set, the rendered home and away
\* values never start with "++" or "+-".
C29_AtMostOneSign ==
    oddsData.resolved =>
        \A i \in 1..Len(oddsData.sites) :
            \A rendered \in {RenderedHomeOdds(oddsData.sites[i]),
                             RenderedAwayOdds(oddsData.sites[i])} :
                ~StartsWith(rendered, "++") /\ ~StartsWith(rendered, "+-")

----------------------------------------------------------------------------
(* The BettingSites component, BettingSites.tsx 13-77: one load of the odds *)
(* of a game through fetchBettingOdds.  The component's isLoading and error *)
(* states are held in the variables of those names.                         *)

\* the component after its first render and the first run of the effect of
\* lines 18-34, up to the await of fetchBettingOdds (line 23)
SitesInit ==
    /\ \E pair \in RequestPairs : homeTeam = pair[1] /\ awayTeam = pair[2]
    /\ loading = TRUE
    /\ predictionModel = Null
    /\ uncaught = FALSE
    /\ data = NoPayload
    /\ parsed = NotParsed
    /\ oddsData = Pending
    /\ again = NotParsed
    /\ oddsArgument = Undefined
    /\ formatted = NotFormatted
    /\ RouteIdle
    /\ CardIdle
    /\ ModalIdle
    /\ selectedDate = Undefined
    /\ games = <<>>
    /\ gamesRequests = <<>>
    /\ bettingSites = <<>>
    /\ isLoading = TRUE
    /\ error = Null

\* lines 23-30: the promise of fetchBettingOdds settled; setBettingSites with
\* its value, or the catch block when it rejected, then the finally block
LoadCompletes ==
    /\ isLoading
    /\ oddsData # Pending
    /\ IF oddsData.resolved
       THEN /\ bettingSites' = oddsData.sites
            /\ UNCHANGED error
       ELSE /\ error' = Param("Could not load betting odds")
            /\ UNCHANGED bettingSites
    /\ isLoading' = FALSE
    /\ UNCHANGED <<selectedDate, games, gamesRequests>>
    /\ UNCHANGED <<baseVars, routeVars, cardVars, modalVars>>

SitesNext == ReceiveResponse \/ ParseResponse \/ FetchFailed \/ LoadCompletes

SitesSpec == SitesInit /\ [][SitesNext]_vars

\* C30: once a load has completed, BettingSites holds a non-empty odds list
\* and error = null: neither the "Could not load betting odds" state nor the
\* "No betting odds available for this game" state (lines 68-77) is
\* reachable, whatever the odds endpoint returns or however it fails.
C30_LoadedListNeverEmpty ==
    ~isLoading => (Len(bettingSites) > 0 /\ error = Null)

\* C30's case: the response quoted bookmakers of which none is a desired
\* one, and the load completed with the model-derived set of four
C30_Witness ==
    /\ ~isLoading
    /\ parsed.done
    /\ ~parsed.threw
    /\ Len(RawQuotes) > 0
    /\ Len(RetainedQuotes) = 0
    /\ Len(bettingSites) = 4
    /\ error = Null

====
